---- MODULE Spec2Model ----
(***************************************************************************)
(* Model lifecycle and registry of the inference gateway                   *)
(* (backend/app/models/base.py, backend/app/models/qwen.py,                *)
(* backend/app/services/model_registry.py).                                *)
(*                                                                         *)
(* The event loop runs one coroutine at a time: a step of the model is the *)
(* code a coroutine runs between two suspension points (a contended        *)
(* asyncio.Lock, asyncio.to_thread, an awaited engine call).  The blocking *)
(* bodies of load() and download() run on worker threads, whose steps      *)
(* interleave freely with the event loop.                                  *)
(***************************************************************************)
EXTENDS Integers, Sequences, FiniteSets, TLC

\* ------------------------------------------------------------------ bounds
NumTasks == 2
SatMax == 2

Tasks == 1..NumTasks

\* ------------------------------------------------------------- vocabulary
None == "None"
\* The exceptions the concrete bodies raise, by their messages.
LoadErrors == {"CUDA est requis pour charger Qwen avec vLLM"}
DownloadErrors == {"404 Client Error"}
UnloadErrors == {"engine shutdown failed"}
DefaultKeys == <<"qwen", "canary", "pyannote">>
NoKey == "missing"
AllKeys == {"qwen", "canary", "pyannote", "dummy"}
DefaultPref == <<0>>

VARIABLES slots, key_order, task_index, rlock, hf_token, inst, disk, tasks, orphans, hist,
          environ, snap, retry, cell, dirs, cuda_visible

vars == <<slots, key_order, task_index, rlock, hf_token, inst, disk, tasks, orphans, hist,
          environ, snap, retry, cell, dirs, cuda_visible>>

\* The whole state as one value, so that the code between two suspension
\* points composes as functions from state to state.
View == [slots |-> slots, key_order |-> key_order, task_index |-> task_index,
         rlock |-> rlock, hf_token |-> hf_token, inst |-> inst, disk |-> disk,
         tasks |-> tasks, orphans |-> orphans, hist |-> hist,
         environ |-> environ, snap |-> snap, retry |-> retry,
         cell |-> cell, dirs |-> dirs, cuda_visible |-> cuda_visible]

Commit(S) ==
    /\ slots' = S.slots
    /\ key_order' = S.key_order
    /\ task_index' = S.task_index
    /\ rlock' = S.rlock
    /\ hf_token' = S.hf_token
    /\ inst' = S.inst
    /\ disk' = S.disk
    /\ tasks' = S.tasks
    /\ orphans' = S.orphans
    /\ hist' = S.hist
    /\ environ' = S.environ
    /\ snap' = S.snap
    /\ retry' = S.retry
    /\ cell' = S.cell
    /\ dirs' = S.dirs
    /\ cuda_visible' = S.cuda_visible

Sat(n) == IF n >= SatMax THEN SatMax ELSE n + 1

\* ------------------------------------------------------------ results
Ok == [kind |-> "ok", val |-> None]
Returned(v) == [kind |-> "ok", val |-> v]
Raised(msg) == [kind |-> "raised", val |-> msg]
NoResult == [kind |-> "none", val |-> None]

\* ------------------------------------------------- runtime state tracker
\* Variant that stores the progress as it is given.
Unclamped(x) == x

Clamp(x) == IF x < 0 THEN 0 ELSE IF x > 100 THEN 100 ELSE x

\* base.py 215-243 update_runtime: u holds the keyword arguments that were
\* given; updated_at is written on every call, from the clock (`now`).
update_runtime(now, r, u) ==
    [f \in DOMAIN r |->
        IF f = "updated_at" THEN now
        ELSE IF f \in DOMAIN u
        THEN IF f = "progress" THEN Clamp(u[f]) ELSE u[f]
        ELSE r[f]]

InitialRuntime(downloaded) ==
    [state |-> "idle", progress |-> 0, status |-> <<"Idle", "">>,
     server |-> None, last_error |-> None, downloaded |-> downloaded,
     updated_at |-> 0]

\* base.py is_downloaded / cache_has_artifacts: a file exists under the
\* repository directory of the cache.
is_downloaded(S, k) == S.disk[k]

\* model_registry.py 173-175, 183: the repository directory of the cache
\* exists, with or without files in it.
cache_dir_exists(S, k) == k \in S.dirs

\* Variant that reports the stored flag without looking at the disk.
runtime_status_stored(S, k) == S.inst[k].rt

\* base.py runtime_status
runtime_status(S, k) ==
    [S.inst[k].rt EXCEPT !.downloaded = @ \/ is_downloaded(S, k)]

\* os.environ["CUDA_VISIBLE_DEVICES"]: absent, or the list of devices it
\* names.  os.environ.get() gives None for the absent variable, which
\* _visible_devices_backup then holds.
Unset == [set |-> FALSE, ids |-> <<>>]
Visible(ids) == [set |-> TRUE, ids |-> ids]

\* ------------------------------------------------------------- instances
NoInstance ==
    [exists |-> FALSE, is_loaded |-> FALSE, lock |-> <<>>, pref |-> <<>>,
     rt |-> InitialRuntime(FALSE), engine |-> "none", hf_token |-> None,
     made_with |-> None, used |-> <<>>,
     visible_devices_backup |-> Unset, visible_before |-> Unset]

\* BaseModelWrapper.__init__ through QwenModel.__init__.  `used` is the
\* device list the most recent load() read; until the first load it is the
\* list the constructor was given.
NewInstance(S, k, token) ==
    [exists |-> TRUE, is_loaded |-> FALSE, lock |-> <<>>, pref |-> DefaultPref,
     rt |-> [InitialRuntime(is_downloaded(S, k)) EXCEPT !.updated_at = S.cell.now],
     engine |-> "none",
     hf_token |-> token, made_with |-> token, used |-> DefaultPref,
     visible_devices_backup |-> Unset, visible_before |-> Unset]

\* What a task that has read no status holds.
NoView ==
    [state |-> "none", progress |-> 0, status |-> <<"", "">>,
     server |-> None, last_error |-> None, downloaded |-> FALSE,
     updated_at |-> 0]

\* What a task that has asked for no listing holds.
NoListing == [k \in {} |-> [loaded |-> FALSE, runtime |-> NoView]]

IdleTask ==
    [pc |-> "idle", op |-> "none", key |-> NoKey, task |-> None, given |-> FALSE, ids |-> <<>>,
     res |-> NoResult, exc |-> None, prev |-> "idle", was_loaded |-> FALSE,
     bodies |-> <<>>, waited |-> FALSE, alone |-> FALSE,
     pre_loaded |-> FALSE, pre_pref |-> <<>>, token |-> None, seen |-> NoView,
     listing |-> NoListing, queued |-> FALSE]

NoHist == [load_calls |-> 0, load_live |-> 0, dl_calls |-> 0, dl_live |-> 0,
           factory_calls |-> 0]

\* The two names under which collaborators read the credential from os.environ.
EnvNames == {"HUGGINGFACE_TOKEN", "HUGGING_FACE_HUB_TOKEN"}

\* model_registry.py 121-127
apply_token_to_environment(S) ==
    [S EXCEPT !.environ = [n \in EnvNames |->
                              IF S.hf_token \notin {None, ""} THEN S.hf_token ELSE None]]

\* No download_snapshot call is running.
NoSnapshot ==
    [phase |-> "off", key |-> NoKey, start_progress |-> 0, end_progress |-> 0,
     known_total |-> 0, last_progress |-> 0, current_bytes |-> 0, total_to_use |-> 0,
     published |-> FALSE,
     monitor |-> "off", stop_event |-> FALSE, monitor_bytes |-> 0]

\* An exception of the fetch: its class and, for an HTTP error, the status
\* code of the response (0 when there is none).
NoError == [type |-> None, status |-> 0]

\* No snapshot_download_with_retry call is running.
NoRetry ==
    [phase |-> "off", max_attempts |-> 0, attempt |-> 0, last_error |-> NoError,
     outcome |-> "none", error |-> NoError, caught |-> NoError,
     fetches |-> 0, sleeps |-> 0]

\* ------------------------------------------------------ call bookkeeping
\* The outermost call of task p ends with result r (a return or a raise).
\* The record behind update_runtime / runtime_status with every field of
\* base.py 49-58, the threading lock that guards it, the threads that write
\* it and the one that reads it.  `committed` is the record as the last
\* completed update_runtime call left it.
Writers == {"wrapper", "poller"}

InitialRecord ==
    [state |-> "idle", progress |-> 0, status |-> "Idle", details |-> "{}",
     server |-> None, last_error |-> None, downloaded |-> FALSE, updated_at |-> 0]

Omitted == [kind |-> "none"]
UNSET == [kind |-> "unset"]
Value(v) == [kind |-> "value", v |-> v]

\* base.py 216-225: the defaults of the keyword arguments.
NoArgs ==
    [state |-> Omitted, progress |-> Omitted, status |-> Omitted, details |-> UNSET,
     server |-> UNSET, downloaded |-> Omitted, last_error |-> UNSET]

NoCell ==
    [runtime_state |-> InitialRecord, runtime_state_lock |-> None,
     committed |-> InitialRecord,
     writer |-> [w \in Writers |-> [at |-> 0, args |-> NoArgs]],
     reader |-> [pc |-> "idle", snapshot |-> InitialRecord],
     now |-> 0]

finish(S, p, r) == [S EXCEPT !.tasks[p].pc = "done", !.tasks[p].res = r]

\* asyncio.Lock is first-come first-served: the head of the queue holds the
\* lock, the others wait for it in order of arrival.
release(lock, p) == IF lock # <<>> /\ Head(lock) = p THEN Tail(lock) ELSE lock

Holds(S, k, p) == S.inst[k].lock # <<>> /\ Head(S.inst[k].lock) = p

\* ------------------------------------------------------------------ infer
\* qwen.py infer, after its ensure_loaded() returned: the engine is used
\* unless it is None.
infer_use(S, p) ==
    LET k == S.tasks[p].key IN
    IF S.inst[k].engine = "none"
    THEN finish(S, p, Raised("RuntimeError"))
    ELSE [S EXCEPT !.tasks[p].pc = "infer_run"]

\* engine.generate returned.
infer_done(S, p) == finish(S, p, Ok)

\* ------------------------------------------------------- ensure_loaded
\* model.ensure_loaded() hands r back to the coroutine that awaited it.
after_ensure_loaded(S, p, r) ==
    IF r.kind = "raised" THEN finish(S, p, r)
    ELSE IF S.tasks[p].op = "infer" THEN infer_use(S, p)
    ELSE finish(S, p, Ok)

\* Variant that dispatches load() without publishing "loading".
start_load_unannounced(S, p) ==
    LET k == S.tasks[p].key IN
    [S EXCEPT
        !.tasks[p].pc = "load_0",
        !.tasks[p].bodies = Append(@, "load"),
        !.hist[k].load_calls = Sat(@),
        !.hist[k].load_live = @ + 1]

\* base.py 87-94: inside the lock and not loaded: publish "loading" and
\* dispatch load() (qwen.py: asyncio.to_thread(_load)).
start_load(S, p) ==
    LET k == S.tasks[p].key IN
    [S EXCEPT
        !.inst[k].rt = update_runtime(S.cell.now, @,
            [state |-> "loading", progress |-> 5,
             status |-> <<"Preparing model load", "">>,
             downloaded |-> is_downloaded(S, k)]),
        !.inst[k].visible_before = S.cuda_visible,
        !.tasks[p].pc = "load_0",
        !.tasks[p].bodies = Append(@, "load"),
        !.hist[k].load_calls = Sat(@),
        !.hist[k].load_live = @ + 1]

\* Variant without the second check: whoever gets the lock loads.
ensure_loaded_locked_unchecked(S, p) == start_load(S, p)

\* base.py 86: the second check of the flag, made inside the lock.  It finds
\* the instance loaded only when the caller had to wait for the lock and the
\* holder loaded it meanwhile, which the task notes in `waited`.
ensure_loaded_locked(S, p) ==
    LET k == S.tasks[p].key IN
    IF ~S.inst[k].is_loaded
    THEN start_load(S, p)
    ELSE after_ensure_loaded([S EXCEPT !.inst[k].lock = release(@, p),
                                       !.tasks[p].waited = TRUE], p, Ok)

\* Variant in which an instance in state "error" refuses further loads.
ensure_loaded_poisoned(S, p) ==
    LET k == S.tasks[p].key IN
    IF S.inst[k].is_loaded THEN after_ensure_loaded(S, p, Ok)
    ELSE IF S.inst[k].rt.state = "error"
    THEN finish(S, p, Raised(S.inst[k].rt.last_error))
    ELSE IF S.inst[k].lock = <<>>
    THEN ensure_loaded_locked([S EXCEPT !.inst[k].lock = <<p>>], p)
    ELSE [S EXCEPT !.inst[k].lock = Append(@, p), !.tasks[p].pc = "el_wait"]

\* Variant whose fast path publishes "ready" again.
ensure_loaded_republishes(S, p) ==
    LET k == S.tasks[p].key IN
    IF S.inst[k].is_loaded
    THEN after_ensure_loaded(
             [S EXCEPT !.inst[k].rt = update_runtime(S.cell.now, @,
                           [state |-> "ready", progress |-> 100,
                            status |-> <<"Model ready", "">>, downloaded |-> TRUE])],
             p, Ok)
    ELSE IF S.inst[k].lock = <<>>
    THEN ensure_loaded_locked([S EXCEPT !.inst[k].lock = <<p>>], p)
    ELSE [S EXCEPT !.inst[k].lock = Append(@, p), !.tasks[p].pc = "el_wait"]

\* base.py 83-85: the check without the lock, then the lock.
ensure_loaded(S, p) ==
    LET k == S.tasks[p].key IN
    IF S.inst[k].is_loaded THEN after_ensure_loaded(S, p, Ok)
    ELSE IF S.inst[k].lock = <<>>
    THEN ensure_loaded_locked([S EXCEPT !.inst[k].lock = <<p>>], p)
    ELSE [S EXCEPT !.inst[k].lock = Append(@, p), !.tasks[p].pc = "el_wait"]

\* qwen.py _load, on the worker thread, in three stretches: what the
\* stretch that starts at `at` does to instance k, and where it ends.
load_effect(S, k, at) ==
    CASE at = "load_0" ->
            \* 45-70: the preferred devices are read (`used` keeps the list),
            \* CUDA_VISIBLE_DEVICES is saved and set to them, and the device
            \* plan is published
            [S EXCEPT !.inst[k].used = S.inst[k].pref,
                      !.inst[k].visible_devices_backup = S.cuda_visible,
                      !.cuda_visible = IF S.inst[k].pref # <<>>
                                       THEN Visible(S.inst[k].pref) ELSE Unset,
                      !.inst[k].rt = update_runtime(S.cell.now, @,
                          [progress |-> 12, status |-> <<"Preparation du cluster GPU", "">>])]
      [] at = "load_1" ->
            \* 72-111: the weights are fetched into the cache
            [S EXCEPT !.disk[k] = TRUE,
              !.dirs = @ \cup {k},
                      !.hist[k].dl_calls = 0,
                      !.hist[k].dl_live = 0,
                      !.inst[k].rt = update_runtime(S.cell.now, @,
                          [progress |-> 68, status |-> <<"Chargement du tokenizer", "">>,
                           downloaded |-> TRUE])]
      [] at = "load_2" ->
            \* 113-151: tokenizer and engine are built
            [S EXCEPT !.inst[k].engine = "up",
                      !.inst[k].rt = update_runtime(S.cell.now, @,
                          [progress |-> 95, status |-> <<"Moteur vLLM initialise", "">>,
                           server |-> "vLLM"])]

\* canary.py _load, on the worker thread, in the same three stretches.
canary_load_effect(S, k, at) ==
    CASE at = "load_0" ->
            \* 58-68: the device is chosen and the fetch announced
            [S EXCEPT !.inst[k].used = S.inst[k].pref,
                      !.inst[k].rt = update_runtime(S.cell.now, @,
                          [progress |-> 40,
                           status |-> <<"Downloading Canary checkpoint", "">>])]
      [] at = "load_1" ->
            \* 69-74: the checkpoint is fetched into the cache
            [S EXCEPT !.disk[k] = TRUE,
              !.dirs = @ \cup {k},
                      !.hist[k].dl_calls = 0,
                      !.hist[k].dl_live = 0,
                      !.inst[k].rt = update_runtime(S.cell.now, @,
                          [progress |-> 85,
                           status |-> <<"Restoring NeMo checkpoint", "">>,
                           downloaded |-> TRUE])]
      [] at = "load_2" ->
            \* 76-89: the checkpoint is restored onto the device
            [S EXCEPT !.inst[k].engine = "up",
                      !.inst[k].rt = update_runtime(S.cell.now, @,
                          [progress |-> 95, status |-> <<"Canary ready", "">>,
                           server |-> "NeMo ASR"])]

LoadNext(at) == CASE at = "load_0" -> "load_1"
                  [] at = "load_1" -> "load_2"
                  [] at = "load_2" -> "load_ok"

load_step(S, p) ==
    LET k == S.tasks[p].key
        at == S.tasks[p].pc IN
    [(IF k = "canary" THEN canary_load_effect(S, k, at) ELSE load_effect(S, k, at))
        EXCEPT !.tasks[p].pc = LoadNext(at)]

\* qwen.py 41-42, 152-158: _load raises msg.  The CUDA check of line 42
\* comes before anything is touched; an exception after line 49 puts the
\* saved CUDA_VISIBLE_DEVICES back.
load_raise(S, p, msg) ==
    LET k == S.tasks[p].key IN
    [S EXCEPT !.tasks[p].pc = "load_err", !.tasks[p].exc = msg,
              !.cuda_visible = IF k = "qwen" /\ S.tasks[p].pc # "load_0"
                               THEN S.inst[k].visible_devices_backup ELSE @]

\* Variant that clears last_error when the load succeeds.
load_done_clears_error(S, p) ==
    LET k == S.tasks[p].key
        S1 == [S EXCEPT
                !.inst[k].is_loaded = TRUE,
                !.inst[k].rt = update_runtime(S.cell.now, @,
                    [state |-> "ready", progress |-> 100,
                     status |-> <<"Model ready", "">>, downloaded |-> TRUE,
                     last_error |-> None]),
                !.hist[k].load_calls = 0,
                !.hist[k].load_live = 0,
                !.inst[k].lock = release(@, p)]
    IN after_ensure_loaded(S1, p, Ok)

\* base.py 103-110: load() returned.
load_done(S, p) ==
    LET k == S.tasks[p].key
        S1 == [S EXCEPT
                !.inst[k].is_loaded = TRUE,
                !.inst[k].rt = update_runtime(S.cell.now, @,
                    [state |-> "ready", progress |-> 100,
                     status |-> <<"Model ready", "">>, downloaded |-> TRUE]),
                !.hist[k].load_calls = 0,
                !.hist[k].load_live = 0,
                !.inst[k].lock = release(@, p)]
    IN after_ensure_loaded(S1, p, Ok)

\* Variant that swallows the exception of load() and records nothing.
load_failed_swallowed(S, p) ==
    LET k == S.tasks[p].key
        S1 == [S EXCEPT
                !.hist[k].load_live = @ - 1,
                !.tasks[p].exc = None,
                !.inst[k].lock = release(@, p)]
    IN after_ensure_loaded(S1, p, Ok)

\* base.py 95-102: load() raised.
load_failed(S, p) ==
    LET k == S.tasks[p].key
        msg == S.tasks[p].exc
        S1 == [S EXCEPT
                !.inst[k].rt = update_runtime(S.cell.now, @,
                    [state |-> "error", status |-> <<"Load failed: ", msg>>,
                     progress |-> 0, last_error |-> msg]),
                !.hist[k].load_live = @ - 1,
                !.tasks[p].exc = None,
                !.inst[k].lock = release(@, p)]
    IN after_ensure_loaded(S1, p, Raised(msg))

\* --------------------------------------------------- ensure_downloaded
\* Variant that publishes "loading" whether or not the model is loaded.
start_download_shows_loading(S, p) ==
    LET k == S.tasks[p].key IN
    [S EXCEPT
        !.inst[k].rt = update_runtime(S.cell.now, @,
            [state |-> "loading", progress |-> 5,
             status |-> <<"Downloading model artifacts", "">>,
             downloaded |-> FALSE]),
        !.tasks[p].pc = "dl_0",
        !.tasks[p].prev = runtime_status(S, k).state,
        !.tasks[p].was_loaded = S.inst[k].is_loaded,
        !.tasks[p].bodies = Append(@, "download"),
        !.hist[k].dl_calls = Sat(@),
        !.hist[k].dl_live = @ + 1]

\* base.py 118-127: inside the lock with the artifacts absent: publish the
\* download and dispatch download() (qwen.py: asyncio.to_thread(_download)).
start_download(S, p) ==
    LET k == S.tasks[p].key
        previous_state == runtime_status(S, k).state
        was_loaded == S.inst[k].is_loaded IN
    [S EXCEPT
        !.inst[k].rt = update_runtime(S.cell.now, @,
            [state |-> IF ~was_loaded THEN "loading" ELSE previous_state,
             progress |-> 5,
             status |-> <<"Downloading model artifacts", "">>,
             downloaded |-> FALSE]),
        !.tasks[p].pc = "dl_0",
        !.tasks[p].prev = previous_state,
        !.tasks[p].was_loaded = was_loaded,
        !.tasks[p].bodies = Append(@, "download"),
        !.hist[k].dl_calls = Sat(@),
        !.hist[k].dl_live = @ + 1]

\* Variant without the second check: whoever gets the lock downloads.
ensure_downloaded_locked_unchecked(S, p) == start_download(S, p)

\* base.py 116-117: the second check of the cache, made inside the lock.
ensure_downloaded_locked(S, p) ==
    LET k == S.tasks[p].key IN
    IF ~is_downloaded(S, k)
    THEN start_download(S, p)
    ELSE finish([S EXCEPT !.inst[k].lock = release(@, p),
                          !.tasks[p].waited = TRUE], p, Ok)

\* base.py 112-115: the check without the lock, then the lock.
ensure_downloaded(S, p) ==
    LET k == S.tasks[p].key IN
    IF is_downloaded(S, k) THEN finish(S, p, Ok)
    ELSE IF S.inst[k].lock = <<>>
    THEN ensure_downloaded_locked([S EXCEPT !.inst[k].lock = <<p>>], p)
    ELSE [S EXCEPT !.inst[k].lock = Append(@, p), !.tasks[p].pc = "ed_wait"]

\* qwen.py _download through base.py download_snapshot, on the worker
\* thread: the first status, then the fetch and the terminal status.
download_step(S, p) ==
    LET k == S.tasks[p].key
        at == S.tasks[p].pc IN
    CASE at = "dl_0" ->
            \* base.py 311-314
            [S EXCEPT !.inst[k].rt = update_runtime(S.cell.now, @,
                          [status |-> <<"Telechargement des poids Qwen", "(0%)">>,
                           progress |-> 18]),
                      !.tasks[p].pc = "dl_1"]
      [] at = "dl_1" ->
            \* base.py 371-395
            [S EXCEPT !.disk[k] = TRUE,
              !.dirs = @ \cup {k},
                      !.hist[k].dl_calls = 0,
                      !.hist[k].dl_live = 0,
                      !.inst[k].rt = update_runtime(S.cell.now, @,
                          [status |-> <<"Poids Qwen disponibles hors ligne", "">>,
                           progress |-> 96, downloaded |-> TRUE]),
                      !.tasks[p].pc = "dl_ok"]

\* base.py 380-384: the fetch raises msg.
download_raise(S, p, msg) ==
    [S EXCEPT !.tasks[p].pc = "dl_err", !.tasks[p].exc = msg]

\* base.py 136-150: download() returned.
download_done(S, p) ==
    LET k == S.tasks[p].key
        t == S.tasks[p]
        u == IF t.was_loaded
             THEN [state |-> t.prev, status |-> <<"Model ready", "">>,
                   downloaded |-> TRUE, progress |-> 100]
             ELSE [state |-> "idle", status |-> <<"Model cached", "">>,
                   progress |-> 100, downloaded |-> TRUE]
        S1 == [S EXCEPT !.inst[k].rt = update_runtime(S.cell.now, @, u),
                        !.inst[k].lock = release(@, p)]
    IN finish(S1, p, Ok)

\* Variant that swallows the exception of download() and records nothing.
download_failed_swallowed(S, p) ==
    LET k == S.tasks[p].key
        S1 == [S EXCEPT
                !.hist[k].dl_live = IF @ > 0 THEN @ - 1 ELSE 0,
                !.tasks[p].exc = None,
                !.inst[k].lock = release(@, p)]
    IN finish(S1, p, Ok)

\* base.py 128-135: download() raised.
download_failed(S, p) ==
    LET k == S.tasks[p].key
        t == S.tasks[p]
        msg == t.exc
        S1 == [S EXCEPT
                !.inst[k].rt = update_runtime(S.cell.now, @,
                    [state |-> IF t.was_loaded THEN t.prev ELSE "error",
                     status |-> <<"Download failed: ", msg>>,
                     progress |-> 0, last_error |-> msg]),
                !.hist[k].dl_live = IF @ > 0 THEN @ - 1 ELSE 0,
                !.tasks[p].exc = None,
                !.inst[k].lock = release(@, p)]
    IN finish(S1, p, Raised(msg))

\* ----------------------------------------------------------------- unload
RECURSIVE shutdown_from(_, _, _)
RECURSIVE shutdown_resumed(_, _, _)

\* model.unload() hands r back to the coroutine that awaited it:
\* model_registry.py 149-150 goes on to ensure_loaded().
after_unload(S, p, r) ==
    IF S.tasks[p].op = "shutdown" THEN shutdown_resumed(S, p, r)
    ELSE IF r.kind = "raised" THEN finish(S, p, r)
    ELSE IF S.tasks[p].op = "registry_ensure_loaded" THEN ensure_loaded(S, p)
    ELSE finish(S, p, Ok)

\* qwen.py 198-202: _unload puts the saved CUDA_VISIBLE_DEVICES back, or
\* removes the variable when nothing was saved.
unload_restores(S, k) ==
    IF S.inst[k].visible_devices_backup # Unset
    THEN S.inst[k].visible_devices_backup
    ELSE IF S.cuda_visible.set THEN Unset
    ELSE S.cuda_visible

\* Variant that leaves the server descriptor and the stored flag alone.
unload_done_keeps_server(S, p) ==
    LET k == S.tasks[p].key
        S1 == [S EXCEPT
                !.inst[k].engine = "none",
                !.inst[k].is_loaded = FALSE,
                !.inst[k].rt = update_runtime(S.cell.now, @,
                    [state |-> "idle", progress |-> 0,
                     status |-> <<"Model unloaded", "">>]),
                !.inst[k].visible_devices_backup = Unset,
                !.cuda_visible = IF k = "qwen" THEN unload_restores(S, k) ELSE @,
                !.hist[k].load_calls = 0,
                !.hist[k].load_live = 0,
                !.inst[k].lock = release(@, p)]
    IN after_unload(S1, p, Ok)

\* base.py 155-162 after qwen.py 189-202: the engine is dropped, the flag
\* cleared and "idle" published.
unload_done(S, p) ==
    LET k == S.tasks[p].key
        S1 == [S EXCEPT
                !.inst[k].engine = "none",
                !.inst[k].is_loaded = FALSE,
                !.inst[k].rt = update_runtime(S.cell.now, @,
                    [state |-> "idle", progress |-> 0,
                     status |-> <<"Model unloaded", "">>, server |-> None,
                     downloaded |-> is_downloaded(S, k)]),
                !.inst[k].visible_devices_backup = Unset,
                !.cuda_visible = IF k = "qwen" THEN unload_restores(S, k) ELSE @,
                !.hist[k].load_calls = 0,
                !.hist[k].load_live = 0,
                !.inst[k].lock = release(@, p)]
    IN after_unload(S1, p, Ok)

\* Variant that marks the instance unloaded although _unload() raised.
unload_failed_clears_flag(S, p, msg) ==
    LET k == S.tasks[p].key
        S1 == [S EXCEPT !.inst[k].engine = "up",
                        !.inst[k].is_loaded = FALSE,
                        !.inst[k].rt = update_runtime(S.cell.now, @,
                            [state |-> "error", status |-> <<"Unload failed: ", msg>>,
                             last_error |-> msg]),
                        !.inst[k].lock = release(@, p)]
    IN after_unload(S1, p, Raised(msg))

\* qwen.py 188: engine.shutdown() raised msg; the lock is released and the
\* exception leaves unload().
unload_failed(S, p, msg) ==
    LET k == S.tasks[p].key
        S1 == [S EXCEPT !.inst[k].engine = "up",
                        !.inst[k].lock = release(@, p)]
    IN after_unload(S1, p, Raised(msg))

\* base.py 153-154 with qwen.py 186-188: inside the lock _unload() runs; it
\* awaits engine.shutdown() when there is an engine, and otherwise has no
\* suspension point.
unload_locked(S, p) ==
    LET k == S.tasks[p].key
        S1 == [S EXCEPT !.tasks[p].bodies = Append(@, "unload")] IN
    IF S.inst[k].engine # "none"
    THEN [S1 EXCEPT !.inst[k].engine = "closing", !.tasks[p].pc = "ul_body"]
    ELSE unload_done(S1, p)

\* Variant that runs _unload() without taking the lock.
unload_unlocked(S, p) == unload_locked(S, p)

\* base.py 152-153
unload(S, p) ==
    LET k == S.tasks[p].key IN
    IF S.inst[k].lock = <<>>
    THEN unload_locked([S EXCEPT !.inst[k].lock = <<p>>], p)
    ELSE [S EXCEPT !.inst[k].lock = Append(@, p), !.tasks[p].pc = "ul_wait"]

\* --------------------------------------------------------------- registry
TaskOf(k) == CASE k = "qwen" -> "chat-completion"
               [] k = "canary" -> "speech-to-text"
               [] k = "pyannote" -> "speaker-diarization"
               [] OTHER -> "unit-test"

\* model_registry.py 76-104: the slot _register_defaults builds for k.
DefaultSlot(k) ==
    [metadata |-> [identifier |-> k, task |-> TaskOf(k), description |-> "default"],
     factory |-> "default_factory"]

\* base.py 68-73
update_device_preferences(i, device_ids) ==
    IF device_ids # i.pref THEN [i EXCEPT !.pref = device_ids] ELSE i

\* Variant that records the new preference but never unloads.
registry_ensure_loaded_keeps_runtime(S, p) ==
    LET k == S.tasks[p].key
        t == S.tasks[p] IN
    IF t.given
    THEN ensure_loaded([S EXCEPT !.inst[k] = update_device_preferences(@, t.ids)], p)
    ELSE ensure_loaded(S, p)

\* Variant that unloads a loaded instance whenever device_ids is supplied.
registry_ensure_loaded_always_unloads(S, p) ==
    LET k == S.tasks[p].key
        t == S.tasks[p] IN
    IF t.given
    THEN LET S1 == [S EXCEPT !.inst[k] = update_device_preferences(@, t.ids)]
         IN IF S1.inst[k].is_loaded THEN unload(S1, p) ELSE ensure_loaded(S1, p)
    ELSE ensure_loaded(S, p)

\* model_registry.py 146-150, with the instance in hand.
registry_ensure_loaded_model(S, p) ==
    LET k == S.tasks[p].key
        t == S.tasks[p] IN
    IF t.given
    THEN LET preferences_changed == t.ids # S.inst[k].pref
             S1 == [S EXCEPT !.inst[k] = update_device_preferences(@, t.ids)]
         IN IF preferences_changed /\ S1.inst[k].is_loaded
            THEN unload(S1, p)
            ELSE ensure_loaded(S1, p)
    ELSE ensure_loaded(S, p)

\* What the caller of registry.get() does with the instance it got:
\* routers/openai.py 48-49 calls infer(), model_registry.py 145 goes on.
after_get(S, p) ==
    LET op == S.tasks[p].op IN
    CASE op = "infer" -> ensure_loaded(S, p)
      [] op = "registry_ensure_loaded" -> registry_ensure_loaded_model(S, p)
      [] OTHER -> finish(S, p, Returned(S.tasks[p].key))

\* model_registry.py 131-136, inside the registry lock.
\* Variant that calls the factory on every access.
get_locked_always_constructs(S, p) ==
    LET k == S.tasks[p].key
        S0 == [S EXCEPT !.rlock = release(@, p)] IN
    IF k \notin DOMAIN S.slots
    THEN finish(S0, p, Raised("KeyError: Unknown model key"))
    ELSE after_get([S0 EXCEPT !.inst[k] = NewInstance(S, k, S.hf_token),
                              !.hist[k].factory_calls = Sat(@)], p)

\* model_registry.py 130-136, inside the registry lock.
get_locked(S, p) ==
    LET k == S.tasks[p].key
        S0 == [S EXCEPT !.rlock = release(@, p)] IN
    IF k \notin DOMAIN S.slots
    THEN finish(S0, p, Raised("KeyError: Unknown model key"))
    ELSE IF ~S.inst[k].exists
    THEN after_get([S0 EXCEPT !.inst[k] = NewInstance(S, k, S.hf_token),
                              !.hist[k].factory_calls = Sat(@)], p)
    ELSE after_get(S0, p)

\* model_registry.py 129-130
get(S, p) ==
    IF S.rlock = <<>>
    THEN get_locked([S EXCEPT !.rlock = <<p>>], p)
    ELSE [S EXCEPT !.rlock = Append(@, p), !.tasks[p].pc = "rl_wait"]

\* Variant that falls back to the chat model for a task nobody declares.
get_by_task_fallback(S, p) ==
    LET task == S.tasks[p].task IN
    get([S EXCEPT !.tasks[p].key = IF task \in DOMAIN S.task_index
                                   THEN S.task_index[task] ELSE "qwen"], p)

\* model_registry.py 138-142
get_by_task(S, p) ==
    LET task == S.tasks[p].task IN
    IF task \notin DOMAIN S.task_index
    THEN finish(S, p, Raised("KeyError: No model registered for task"))
    ELSE get([S EXCEPT !.tasks[p].key = S.task_index[task]], p)

\* model_registry.py 154-159, inside the registry lock and after it.
registry_unload_locked(S, p) ==
    LET k == S.tasks[p].key
        S0 == [S EXCEPT !.rlock = release(@, p)] IN
    IF k \notin DOMAIN S.slots
    THEN finish(S0, p, Raised("KeyError: Unknown model key"))
    ELSE IF S.inst[k].exists THEN unload(S0, p)
    ELSE finish(S0, p, Ok)

\* model_registry.py 152-153
registry_unload(S, p) ==
    IF S.rlock = <<>>
    THEN registry_unload_locked([S EXCEPT !.rlock = <<p>>], p)
    ELSE [S EXCEPT !.rlock = Append(@, p), !.tasks[p].pc = "rl_wait"]

IndexOf(q, x) == CHOOSE i \in DOMAIN q : q[i] = x

\* model_registry.py 199-202: the loop over the slots, from the i-th on,
\* inside the registry lock; `async with` releases the lock at the end.
shutdown_from(S, p, i) ==
    IF i > Len(S.key_order)
    THEN finish([S EXCEPT !.rlock = release(@, p)], p, Ok)
    ELSE LET k == S.key_order[i] IN
         IF S.inst[k].exists /\ S.inst[k].is_loaded
         THEN unload([S EXCEPT !.tasks[p].key = k], p)
         ELSE shutdown_from(S, p, i + 1)

\* Variant in which an exception leaves shutdown() with the lock still held.
shutdown_resumed_keeps_lock(S, p, r) ==
    IF r.kind = "raised"
    THEN finish(S, p, r)
    ELSE shutdown_from(S, p, IndexOf(S.key_order, S.tasks[p].key) + 1)

\* model_registry.py 202: `await model.unload()` hands r back; an exception
\* leaves shutdown() through `async with`, which releases the lock.
shutdown_resumed(S, p, r) ==
    IF r.kind = "raised"
    THEN finish([S EXCEPT !.rlock = release(@, p)], p, r)
    ELSE shutdown_from(S, p, IndexOf(S.key_order, S.tasks[p].key) + 1)

\* model_registry.py 197-198
shutdown(S, p) ==
    IF S.rlock = <<>>
    THEN shutdown_from([S EXCEPT !.rlock = <<p>>], p, 1)
    ELSE [S EXCEPT !.rlock = Append(@, p), !.tasks[p].pc = "rl_wait"]

\* Variant in which a second registration replaces the first.
register_overwrite(S, p, slot) ==
    LET k == S.tasks[p].key IN
    finish([S EXCEPT
               !.slots = [x \in DOMAIN S.slots \cup {k} |->
                             IF x = k THEN slot ELSE S.slots[x]],
               !.key_order = IF k \in DOMAIN S.slots THEN @ ELSE Append(@, k),
               !.task_index = [x \in DOMAIN S.task_index \cup {slot.metadata.task} |->
                             IF x = slot.metadata.task THEN k ELSE S.task_index[x]]],
           p, Ok)

\* register(key, metadata, factory): the explicit registration the tests use.
register(S, p, slot) ==
    LET k == S.tasks[p].key IN
    IF k \in DOMAIN S.slots
    THEN finish(S, p, Raised("ValueError: DuplicateKey"))
    ELSE finish([S EXCEPT
                    !.slots = [x \in DOMAIN S.slots \cup {k} |->
                                  IF x = k THEN slot ELSE S.slots[x]],
                    !.key_order = Append(@, k),
                    !.task_index = [x \in DOMAIN S.task_index \cup {slot.metadata.task} |->
                                  IF x = slot.metadata.task THEN k ELSE S.task_index[x]]],
                p, Ok)

\* ---------------------------------------------------------------- inputs
LifeKeys == {"qwen"}
DeviceInputs == {<<0>>, <<1>>}
RegistryKeys == {"qwen", NoKey}
GetKeys == {"qwen", "dummy", NoKey}
RegisterKeys == {"qwen", "dummy"}
TaskInputs == {"chat-completion", "unit-test", "missing-task"}
SlotInputs ==
    {[metadata |-> [identifier |-> "local/dummy", task |-> "unit-test", description |-> d],
      factory |-> f] :
        d \in {"Dummy model used for unit testing", "Duplicate dummy"},
        f \in {"first_factory", "second_factory"}}

\* ------------------------------------------------------------------ state
\* model_registry.py 34-46: the registry after configure().
Init ==
    /\ slots = [k \in {DefaultKeys[i] : i \in DOMAIN DefaultKeys} |-> DefaultSlot(k)]
    /\ key_order = DefaultKeys
    /\ task_index = [t \in {TaskOf(DefaultKeys[i]) : i \in DOMAIN DefaultKeys} |->
                        CHOOSE k \in {DefaultKeys[i] : i \in DOMAIN DefaultKeys} : TaskOf(k) = t]
    /\ rlock = <<>>
    /\ hf_token = None
    /\ inst = [k \in AllKeys |-> NoInstance]
    /\ disk \in {d \in [AllKeys -> BOOLEAN] : \A k \in AllKeys \ LifeKeys : ~d[k]}
    /\ tasks = [p \in Tasks |-> IdleTask]
    /\ orphans = [k \in AllKeys |-> {}]
    /\ hist = [k \in AllKeys |-> NoHist]
    /\ environ = [n \in EnvNames |-> None]
    /\ snap = NoSnapshot
    /\ retry = NoRetry
    /\ cell = NoCell
    /\ dirs = {k \in AllKeys : disk[k]}
    /\ cuda_visible = Unset

InFlight(t) == t.pc \notin {"idle", "done"}

\* A request handler starts: task p begins operation op with its arguments.
\* A registry.ensure_loaded call that starts while no other call is in
\* flight notes what it found (was the instance loaded, with which
\* preference); the note is dropped as soon as another call starts.
begin(S, p, op, key, task, given, ids) ==
    LET quiet == \A q \in Tasks \ {p} : ~InFlight(S.tasks[q])
        noted == op = "registry_ensure_loaded" /\ key \in AllKeys /\ quiet IN
    [S EXCEPT
     !.hist = [k \in AllKeys |->
                 IF quiet THEN [S.hist[k] EXCEPT !.load_calls = 0, !.dl_calls = 0]
                 ELSE S.hist[k]],
     !.tasks =
        [q \in Tasks |->
            IF q = p
            THEN [IdleTask EXCEPT !.pc = "running", !.op = op, !.key = key,
                                  !.task = task, !.given = given, !.ids = ids,
                                  !.alone = noted,
                                  !.pre_loaded = noted /\ S.inst[key].is_loaded,
                                  !.pre_pref = IF noted THEN S.inst[key].pref ELSE <<>>]
            ELSE [S.tasks[q] EXCEPT !.alone = FALSE, !.pre_loaded = FALSE,
                                    !.pre_pref = <<>>]]]

Idle(p) == tasks[p].pc = "idle"

\* ------------------------------------------------- calls on an instance
call_ensure_loaded(p, k) ==
    /\ Idle(p) /\ inst[k].exists
    /\ Commit(ensure_loaded(begin(View, p, "ensure_loaded", k, None, FALSE, <<>>), p))

call_ensure_downloaded(p, k) ==
    /\ Idle(p) /\ inst[k].exists
    /\ Commit(ensure_downloaded(begin(View, p, "ensure_downloaded", k, None, FALSE, <<>>), p))

call_unload(p, k) ==
    /\ Idle(p) /\ inst[k].exists
    /\ Commit(unload(begin(View, p, "unload", k, None, FALSE, <<>>), p))

\* routers/openai.py 48-49: registry.get(key), then model.infer().
call_infer(p, k) ==
    /\ Idle(p)
    /\ Commit(get(begin(View, p, "infer", k, None, FALSE, <<>>), p))

\* ------------------------------------------------- calls on the registry
call_get(p, k) ==
    /\ Idle(p)
    /\ Commit(get(begin(View, p, "get", k, None, FALSE, <<>>), p))

call_get_by_task(p, task) ==
    /\ Idle(p)
    /\ Commit(get_by_task(begin(View, p, "get_by_task", NoKey, task, FALSE, <<>>), p))

call_registry_ensure_loaded(p, k, given, ids) ==
    /\ Idle(p)
    /\ Commit(get(begin(View, p, "registry_ensure_loaded", k, None, given, ids), p))

call_registry_unload(p, k) ==
    /\ Idle(p)
    /\ Commit(registry_unload(begin(View, p, "registry_unload", k, None, FALSE, <<>>), p))

call_register(p, k, slot) ==
    /\ Idle(p)
    /\ Commit(register(begin(View, p, "register", k, None, FALSE, <<>>), p, slot))

\* ------------------------------------------------- resumed coroutines
lock_granted(p) ==
    LET t == tasks[p] IN
    /\ t.pc \in {"el_wait", "ed_wait", "ul_wait"}
    /\ Holds(View, t.key, p)
    /\ Commit(CASE t.pc = "el_wait" -> ensure_loaded_locked(View, p)
                [] t.pc = "ed_wait" -> ensure_downloaded_locked(View, p)
                [] t.pc = "ul_wait" -> unload_locked(View, p))

load_returns(p) == tasks[p].pc = "load_ok" /\ Commit(load_done(View, p))

load_raises(p) == tasks[p].pc = "load_err" /\ Commit(load_failed(View, p))

download_returns(p) == tasks[p].pc = "dl_ok" /\ Commit(download_done(View, p))

download_raises(p) == tasks[p].pc = "dl_err" /\ Commit(download_failed(View, p))

unload_returns(p) == tasks[p].pc = "ul_body" /\ Commit(unload_done(View, p))

unload_raises(p, msg) == tasks[p].pc = "ul_body" /\ Commit(unload_failed(View, p, msg))

infer_returns(p) == tasks[p].pc = "infer_run" /\ Commit(infer_done(View, p))

\* The handler hands its result to the HTTP layer and the task ends.
Return(p) ==
    /\ tasks[p].pc = "done"
    /\ tasks' = [tasks EXCEPT ![p] = IdleTask]
    /\ UNCHANGED <<slots, key_order, task_index, rlock, hf_token, inst, disk, orphans, hist,
                   environ, snap, retry, cell, dirs, cuda_visible>>

\* ---------------------------------------------------- worker threads
load_thread(p) ==
    /\ tasks[p].pc \in {"load_0", "load_1", "load_2"}
    /\ Commit(load_step(View, p))

load_thread_raises(p, msg) ==
    /\ tasks[p].pc \in {"load_0", "load_1", "load_2"}
    /\ Commit(load_raise(View, p, msg))

download_thread(p) ==
    /\ tasks[p].pc \in {"dl_0", "dl_1"}
    /\ Commit(download_step(View, p))

download_thread_raises(p, msg) ==
    /\ tasks[p].pc \in {"dl_0", "dl_1"}
    /\ Commit(download_raise(View, p, msg))

\* ------------------------------------------------------- environment
\* The cache directory of a model is removed behind the program's back.
cache_cleared(k) ==
    /\ disk[k]
    /\ disk' = [disk EXCEPT ![k] = FALSE]
    /\ dirs' = dirs \ {k}
    /\ hist' = [hist EXCEPT ![k].dl_calls = 0, ![k].dl_live = 0]
    /\ UNCHANGED <<slots, key_order, task_index, rlock, hf_token, inst, tasks, orphans,
                   environ, snap, retry, cell, cuda_visible>>

\* ------------------------------------------- lifecycle of one instance
Next ==
    \/ \E p \in Tasks, k \in LifeKeys :
          \/ call_get(p, k)
          \/ call_ensure_loaded(p, k)
          \/ call_ensure_downloaded(p, k)
          \/ call_unload(p, k)
          \/ call_infer(p, k)
    \/ \E p \in Tasks :
          \/ lock_granted(p)
          \/ load_thread(p)
          \/ load_returns(p)
          \/ load_raises(p)
          \/ download_thread(p)
          \/ download_returns(p)
          \/ download_raises(p)
          \/ unload_returns(p)
          \/ infer_returns(p)
          \/ Return(p)
          \/ \E msg \in LoadErrors : load_thread_raises(p, msg)
          \/ \E msg \in DownloadErrors : download_thread_raises(p, msg)
          \/ \E msg \in UnloadErrors : unload_raises(p, msg)
    \/ \E k \in LifeKeys : cache_cleared(k)

Spec == Init /\ [][Next]_vars

\* ------------------------------------------------ the registry's callers
\* routers/admin.py 57-73: load (with or without a device list) and unload.
NextRegistry ==
    \/ \E p \in Tasks, k \in LifeKeys :
          \/ call_registry_ensure_loaded(p, k, FALSE, <<>>)
          \/ \E ids \in DeviceInputs : call_registry_ensure_loaded(p, k, TRUE, ids)
          \/ call_registry_unload(p, k)
    \/ \E p \in Tasks, k \in LifeKeys : call_ensure_loaded(p, k)
    \/ \E p \in Tasks :
          \/ lock_granted(p)
          \/ load_thread(p)
          \/ load_returns(p)
          \/ load_raises(p)
          \/ unload_returns(p)
          \/ Return(p)
          \/ \E msg \in LoadErrors : load_thread_raises(p, msg)
          \/ \E msg \in UnloadErrors : unload_raises(p, msg)

SpecRegistry == Init /\ [][NextRegistry]_vars

\* ------------------------------------------------- the catalogue of slots
NextCatalog ==
    \/ \E p \in Tasks :
          \/ \E k \in GetKeys : call_get(p, k)
          \/ \E task \in TaskInputs : call_get_by_task(p, task)
          \/ \E k \in RegisterKeys, slot \in SlotInputs : call_register(p, k, slot)
          \/ \E k \in RegistryKeys : call_registry_ensure_loaded(p, k, FALSE, <<>>)
    \/ \E p \in Tasks :
          \/ lock_granted(p)
          \/ load_thread(p)
          \/ load_returns(p)
          \/ load_raises(p)
          \/ Return(p)
          \/ \E msg \in LoadErrors : load_thread_raises(p, msg)

SpecCatalog == Init /\ [][NextCatalog]_vars

\* ---------------------------------------------------------- cancellation
MaxOrphans == 1

\* The task that awaits load() is cancelled (the client went away).
\* CancelledError is not an Exception: base.py 95 does not catch it and the
\* else branch of 103 is skipped; `async with` releases the lock.  A worker
\* thread cannot be cancelled: the one running _load goes on by itself.
cancel_load(S, p) ==
    LET k == S.tasks[p].key
        at == S.tasks[p].pc
        S1 == [S EXCEPT !.inst[k].lock = release(@, p), !.tasks[p].exc = None,
                        !.hist[k].load_live = IF @ > 0 THEN @ - 1 ELSE 0] IN
    finish(IF at \in {"load_0", "load_1", "load_2"}
           THEN [S1 EXCEPT !.orphans[k] = @ \cup {at}]
           ELSE S1,
           p, [kind |-> "cancelled", val |-> None])

\* The task is cancelled while it waits for the lock: it leaves the queue.
cancel_wait(S, p) ==
    LET k == S.tasks[p].key IN
    finish([S EXCEPT !.inst[k].lock = SelectSeq(@, LAMBDA q : q # p)],
           p, [kind |-> "cancelled", val |-> None])

cancel(p) ==
    /\ tasks[p].pc \in {"load_0", "load_1", "load_2", "load_ok", "load_err", "el_wait"}
    /\ Cardinality(orphans[tasks[p].key]) < MaxOrphans
    /\ Commit(IF tasks[p].pc = "el_wait" THEN cancel_wait(View, p)
              ELSE cancel_load(View, p))

\* A worker thread whose awaiting task was cancelled runs on; its result or
\* exception is dropped with the cancelled future.
orphan_thread(k) ==
    \E at \in orphans[k] :
        Commit([load_effect(View, k, at) EXCEPT
                   !.orphans[k] = (@ \ {at}) \cup ({LoadNext(at)} \ {"load_ok"})])

orphan_thread_raises(k) ==
    \E at \in orphans[k] :
        /\ orphans' = [orphans EXCEPT ![k] = @ \ {at}]
        /\ cuda_visible' = IF k = "qwen" /\ at # "load_0"
                           THEN inst[k].visible_devices_backup ELSE cuda_visible
        /\ UNCHANGED <<slots, key_order, task_index, rlock, hf_token, inst, disk,
                       tasks, hist, environ, snap, retry, cell, dirs>>

NextCancel ==
    \/ \E p \in Tasks, k \in LifeKeys :
          \/ call_get(p, k)
          \/ call_ensure_loaded(p, k)
    \/ \E p \in Tasks :
          \/ lock_granted(p)
          \/ load_thread(p)
          \/ load_returns(p)
          \/ load_raises(p)
          \/ cancel(p)
          \/ Return(p)
          \/ \E msg \in LoadErrors : load_thread_raises(p, msg)
    \/ \E k \in LifeKeys :
          \/ orphan_thread(k)
          \/ orphan_thread_raises(k)

\* Every worker thread runs to its end and every resumed coroutine is run.
SpecCancel ==
    /\ Init /\ [][NextCancel]_vars
    /\ \A p \in Tasks :
          WF_vars(lock_granted(p) \/ load_thread(p) \/ load_returns(p) \/ load_raises(p))
    /\ \A k \in LifeKeys : WF_vars(orphan_thread(k))

\* ------------------------------------------------- download progress
Min(a, b) == IF a < b THEN a ELSE b
Max(a, b) == IF a > b THEN a ELSE b

\* base.py 232: int(progress) of a float, given here in tenths, truncates
\* toward zero.
int_of_tenths(p10) == IF p10 >= 0 THEN p10 \div 10 ELSE -((-p10) \div 10)

\* The calls of download_snapshot and of emit_progress.
RangeInputs == {<<10, 90>>, <<18, 96>>, <<-5, 150>>, <<90, 10>>}
TotalInputs == {0, 26, 1000}
ByteInputs == {0, 15, 290, 500, 2000}
ProgressInputs == {-50, -5, 505, 1500}

\* base.py 326-327 is computed in IEEE-754 doubles.  These are the inputs
\* <<start, end, current, total>> of the model for which the double value of
\* start + (end - start) * (current / total) lies just below the exact value,
\* which is an integer, so that int() yields one less: 18 + 78 * (15 / 26) is
\* 62.99999999999999 and 100 * (290 / 1000) is 28.999999999999996.
DoubleFallsShort == {<<18, 96, 15, 26>>, <<0, 100, 290, 1000>>}

\* base.py 326-327: fraction and mapped_progress.
mapped_progress(start, end, current, total) ==
    LET floored == start + ((end - start) * Min(current, total)) \div total IN
    IF <<start, end, current, total>> \in DoubleFallsShort THEN floored - 1 ELSE floored

\* base.py 303-318: the range is normalised, the size resolved (0 when it is
\* not known) and the first status published.
download_snapshot_begin(S, p, range, total_bytes) ==
    LET k == S.tasks[p].key
        start_progress == Max(0, Min(100, range[1]))
        end_progress == Max(start_progress, Min(100, range[2])) IN
    [S EXCEPT
        !.inst[k].rt = update_runtime(S.cell.now, @,
            [status |-> <<"Telechargement des poids Qwen", "(0%)">>,
             progress |-> start_progress]),
        !.snap = [NoSnapshot EXCEPT
                     !.phase = "fetching", !.key = k,
                     !.start_progress = start_progress,
                     !.end_progress = end_progress,
                     !.known_total = total_bytes,
                     !.last_progress = start_progress],
        !.tasks[p].pc = "dl_1"]

\* base.py 320-342: emit_progress(current_bytes, total); a total of 0 stands
\* for None as well, the code treating both alike.
emit_progress(S, current_bytes, total) ==
    LET k == S.snap.key
        known_total == IF total > 0 THEN total ELSE S.snap.known_total
        total_to_use == IF total # 0 THEN total ELSE known_total
        mapped == mapped_progress(S.snap.start_progress, S.snap.end_progress,
                                  current_bytes, total_to_use)
        S1 == [S EXCEPT !.snap.known_total = known_total,
                        !.snap.current_bytes = current_bytes,
                        !.snap.total_to_use = total_to_use,
                        !.snap.published = FALSE] IN
    IF total_to_use > 0
    THEN IF mapped # S.snap.last_progress
         THEN [S1 EXCEPT
                 !.snap.last_progress = mapped,
                 !.snap.published = TRUE,
                 !.inst[k].rt = update_runtime(S.cell.now, @,
                     [status |-> <<"Telechargement des poids Qwen", "(percent%)">>,
                      progress |-> mapped])]
         ELSE S1
    ELSE [S1 EXCEPT
            !.inst[k].rt = update_runtime(S.cell.now, @,
                [status |-> <<"Telechargement des poids Qwen", "(bytes)">>])]

\* base.py 385-396: the fetch returned; the terminal status is published.
download_snapshot_end(S, p) ==
    LET k == S.tasks[p].key IN
    [S EXCEPT !.disk[k] = TRUE,
              !.dirs = @ \cup {k},
              !.hist[k].dl_calls = 0,
              !.hist[k].dl_live = 0,
              !.inst[k].rt = update_runtime(S.cell.now, @,
                  [status |-> <<"Poids Qwen disponibles hors ligne", "">>,
                   progress |-> S.snap.end_progress, downloaded |-> TRUE]),
              !.snap = NoSnapshot,
              !.tasks[p].pc = "dl_ok"]

\* base.py 380-384: the fetch raised msg.
download_snapshot_raise(S, p, msg) ==
    download_raise([S EXCEPT !.snap = NoSnapshot], p, msg)

snapshot_begins(p, range, total_bytes) ==
    /\ tasks[p].pc = "dl_0" /\ snap.phase = "off"
    /\ Commit(download_snapshot_begin(View, p, range, total_bytes))

progress_reported(p, current_bytes, total) ==
    /\ tasks[p].pc = "dl_1" /\ snap.phase = "fetching"
    /\ Commit(emit_progress(View, current_bytes, total))

snapshot_returns(p) ==
    /\ tasks[p].pc = "dl_1" /\ snap.phase = "fetching"
    /\ Commit(download_snapshot_end(View, p))

snapshot_raises(p, msg) ==
    /\ tasks[p].pc = "dl_1" /\ snap.phase = "fetching"
    /\ Commit(download_snapshot_raise(View, p, msg))

\* Any caller of update_runtime(progress=...), on any thread.
call_update_runtime(k, p10) ==
    /\ inst[k].exists
    /\ Commit([View EXCEPT !.inst[k].rt =
                  update_runtime(cell.now, @, [progress |-> int_of_tenths(p10)])])

\* Artifacts appear in the cache directory of a model: files the fetch in
\* progress has written so far, or a cache filled by another process.
cache_filled(k) ==
    /\ ~disk[k]
    /\ disk' = [disk EXCEPT ![k] = TRUE]
    /\ dirs' = dirs \cup {k}
    /\ hist' = [hist EXCEPT ![k].dl_calls = 0, ![k].dl_live = 0]
    /\ UNCHANGED <<slots, key_order, task_index, rlock, hf_token, inst, tasks, orphans,
                   environ, snap, retry, cell, cuda_visible>>

NextRuntime ==
    \/ \E p \in Tasks, k \in LifeKeys :
          \/ call_get(p, k)
          \/ call_ensure_downloaded(p, k)
    \/ \E p \in Tasks :
          \/ lock_granted(p)
          \/ \E range \in RangeInputs, total_bytes \in TotalInputs :
                snapshot_begins(p, range, total_bytes)
          \/ \E current_bytes \in ByteInputs, total \in TotalInputs :
                progress_reported(p, current_bytes, total)
          \/ snapshot_returns(p)
          \/ \E msg \in DownloadErrors : snapshot_raises(p, msg)
          \/ download_returns(p)
          \/ download_raises(p)
          \/ Return(p)
    \/ \E k \in LifeKeys :
          \/ \E p10 \in ProgressInputs : call_update_runtime(k, p10)
          \/ cache_filled(k)

SpecRuntime == Init /\ [][NextRuntime]_vars

\* ------------------------------------------------- the progress poller
\* base.py 344-352: no total is known, the monitor thread is started.
start_monitor(S) == [S EXCEPT !.snap.monitor = "check", !.snap.stop_event = FALSE]

\* The closure of emit_progress lives as long as the monitor thread does.
keep_for_monitor(S, before, phase) ==
    IF before.monitor \in {"off", "ended"} THEN S
    ELSE [S EXCEPT !.snap = [before EXCEPT !.phase = phase]]

snapshot_begins_monitored(p, range) ==
    /\ tasks[p].pc = "dl_0" /\ snap.phase = "off"
    /\ Commit(start_monitor(download_snapshot_begin(View, p, range, 0)))

\* base.py 420: `while not stop_event.is_set()`.
monitor_checks ==
    /\ snap.monitor = "check"
    /\ Commit(IF snap.stop_event
              THEN [View EXCEPT !.snap = IF snap.phase \in {"returned", "raised"}
                                         THEN NoSnapshot
                                         ELSE [snap EXCEPT !.monitor = "ended"]]
              ELSE [View EXCEPT !.snap.monitor = "walk"])

\* base.py 421-423: the directory is walked; the count differs from the
\* last one or not.
monitor_walks(changed, downloaded) ==
    /\ snap.monitor = "walk"
    /\ Commit(IF changed
              THEN [View EXCEPT !.snap.monitor = "emit", !.snap.monitor_bytes = downloaded]
              ELSE [View EXCEPT !.snap.monitor = "wait"])

\* base.py 424: emit_progress(downloaded, None).
monitor_emits ==
    /\ snap.monitor = "emit"
    /\ Commit([emit_progress(View, snap.monitor_bytes, 0) EXCEPT
                  !.snap.monitor = "wait", !.snap.monitor_bytes = 0])

\* base.py 425: stop_event.wait(0.8) is over.
monitor_wakes ==
    /\ snap.monitor = "wait"
    /\ Commit([View EXCEPT !.snap.monitor = "check"])

\* base.py 372-379 and 386: the fetch returned; stop_event is set.
snapshot_fetch_returns(p) ==
    /\ tasks[p].pc = "dl_1" /\ snap.phase = "fetching"
    /\ Commit([View EXCEPT !.snap.phase = "joining", !.snap.stop_event = TRUE])

\* base.py 380-381: the fetch raised msg; stop_event is set.
snapshot_fetch_raises(p, msg) ==
    /\ tasks[p].pc = "dl_1" /\ snap.phase = "fetching"
    /\ Commit([View EXCEPT !.snap.phase = "joining_raise", !.snap.stop_event = TRUE,
                           !.tasks[p].exc = msg])

\* base.py 387-396: monitor_thread.join(timeout=2) is over, because the
\* thread ended or because two seconds went by; the terminal status is
\* published and download_snapshot returns.
monitor_joined(p) ==
    /\ tasks[p].pc = "dl_1" /\ snap.phase = "joining"
    /\ Commit(keep_for_monitor(download_snapshot_end(View, p), snap, "returned"))

\* base.py 382-384: the same join, and the exception goes on.
monitor_joined_raise(p) ==
    /\ tasks[p].pc = "dl_1" /\ snap.phase = "joining_raise"
    /\ Commit(keep_for_monitor(download_snapshot_raise(View, p, tasks[p].exc),
                               snap, "raised"))

MonitorBytes == {15}

NextMonitor ==
    \/ \E p \in Tasks, k \in LifeKeys :
          \/ call_get(p, k)
          \/ call_ensure_downloaded(p, k)
    \/ \E p \in Tasks :
          \/ lock_granted(p)
          \/ \E range \in RangeInputs : snapshot_begins_monitored(p, range)
          \/ \E current_bytes \in ByteInputs, total \in TotalInputs :
                progress_reported(p, current_bytes, total)
          \/ snapshot_fetch_returns(p)
          \/ \E msg \in DownloadErrors : snapshot_fetch_raises(p, msg)
          \/ monitor_joined(p)
          \/ monitor_joined_raise(p)
          \/ download_returns(p)
          \/ download_raises(p)
          \/ Return(p)
    \/ monitor_checks
    \/ \E changed \in BOOLEAN, downloaded \in MonitorBytes : monitor_walks(changed, downloaded)
    \/ monitor_emits
    \/ monitor_wakes

SpecMonitor == Init /\ [][NextMonitor]_vars

\* ------------------------------------------------------ fetch with retry
MaxAttemptsBound == 3

\* hf.py 16-22
RETRYABLE_EXCEPTIONS ==
    {"ConnectionError", "Timeout", "SSLError", "ChunkedEncodingError", "urllib3.HTTPError"}

StatusInputs == {0, 401, 404, 499, 500, 503, 599, 600}

\* What one call of hf_snapshot_download can raise.
FetchErrors ==
    {[type |-> t, status |-> 0] : t \in RETRYABLE_EXCEPTIONS \cup {"ValueError"}}
        \cup {[type |-> "HfHubHTTPError", status |-> st] : st \in StatusInputs}

\* Variant that retries every HTTP error that has a status code.
should_retry_any_http_error(error) == error.status # 0

\* hf.py 25-30
should_retry_http_error(error) ==
    IF error.status = 0 THEN FALSE
    ELSE 500 <= error.status /\ error.status < 600

\* The call ends by raising error.
retry_raise(r, error) == [r EXCEPT !.phase = "done", !.outcome = "raised", !.error = error]

\* Variant that allows one attempt more than max_attempts.
on_fetch_error_one_more(r, error) ==
    LET r1 == [r EXCEPT !.last_error = error, !.caught = error, !.fetches = @ + 1] IN
    IF r.attempt = r.max_attempts + 1 THEN retry_raise(r1, error)
    ELSE [r1 EXCEPT !.phase = "sleeping"]

\* hf.py 58-86: attempt number r.attempt raised error.
on_fetch_error(r, error) ==
    LET r0 == [r EXCEPT !.caught = error, !.fetches = @ + 1]
        r1 == [r0 EXCEPT !.last_error = error] IN
    IF error.type = "HfHubHTTPError"
    THEN IF ~should_retry_http_error(error) \/ r.attempt = r.max_attempts
         THEN retry_raise(r1, error)
         ELSE [r1 EXCEPT !.phase = "sleeping"]
    ELSE IF error.type \in RETRYABLE_EXCEPTIONS
    THEN IF r.attempt = r.max_attempts
         THEN retry_raise(r1, error)
         ELSE [r1 EXCEPT !.phase = "sleeping"]
    ELSE retry_raise(r0, error)

\* hf.py 48-55
snapshot_download_with_retry(max_attempts) ==
    IF max_attempts < 1
    THEN retry_raise([NoRetry EXCEPT !.max_attempts = max_attempts],
                     [type |-> "ValueError", status |-> 0])
    ELSE [NoRetry EXCEPT !.phase = "fetching", !.max_attempts = max_attempts,
                         !.attempt = 1]

call_snapshot_download_with_retry(max_attempts) ==
    /\ retry.phase = "off"
    /\ Commit([View EXCEPT !.retry = snapshot_download_with_retry(max_attempts)])

\* hf.py 57: the fetch returned the path of the snapshot.
fetch_returns ==
    /\ retry.phase = "fetching"
    /\ Commit([View EXCEPT !.retry = [retry EXCEPT !.phase = "done", !.outcome = "returned",
                                                    !.caught = NoError,
                                                    !.fetches = @ + 1]])

fetch_raises(error) ==
    /\ retry.phase = "fetching"
    /\ Commit([View EXCEPT !.retry = on_fetch_error(retry, error)])

\* hf.py 72, 86 and 55: time.sleep returned and the loop goes on.
sleep_returns ==
    /\ retry.phase = "sleeping"
    /\ Commit([View EXCEPT !.retry = [retry EXCEPT !.phase = "fetching",
                                                    !.sleeps = @ + 1,
                                                    !.attempt = @ + 1]])

\* The caller has taken the result or the exception.
retry_returns ==
    /\ retry.phase = "done"
    /\ Commit([View EXCEPT !.retry = NoRetry])

NextRetry ==
    \/ \E max_attempts \in 0..MaxAttemptsBound :
          call_snapshot_download_with_retry(max_attempts)
    \/ fetch_returns
    \/ \E error \in FetchErrors : fetch_raises(error)
    \/ sleep_returns
    \/ retry_returns

\* Every fetch returns or raises, and every sleep ends.
SpecRetry ==
    /\ Init /\ [][NextRetry]_vars
    /\ WF_vars(fetch_returns \/ \E error \in FetchErrors : fetch_raises(error))
    /\ WF_vars(sleep_returns)

\* ---------------------------------------------------------- credentials
TokenInputs == {None, "", "test-token", "hf_second"}
ServingTokens == {"test-token"}
CredentialKeys == {"qwen", "canary"}

\* Variant that swaps the shared credential without pushing it to instances.
set_hf_token_locked_no_push(S, p) ==
    finish(apply_token_to_environment(
               [S EXCEPT !.hf_token = S.tasks[p].token, !.rlock = release(@, p)]),
           p, Ok)

\* model_registry.py 115-119, inside the registry lock.
set_hf_token_locked(S, p) ==
    LET token == S.tasks[p].token
        S1 == apply_token_to_environment(
                  [S EXCEPT !.hf_token = token, !.rlock = release(@, p)])
    IN finish([S1 EXCEPT
                  !.inst = [k \in AllKeys |->
                               IF k \in DOMAIN S.slots /\ S.inst[k].exists
                               THEN [S.inst[k] EXCEPT !.hf_token = token]
                               ELSE S.inst[k]]],
              p, Ok)

\* model_registry.py 113-114
set_hf_token(S, p) ==
    IF S.rlock = <<>>
    THEN set_hf_token_locked([S EXCEPT !.rlock = <<p>>], p)
    ELSE [S EXCEPT !.rlock = Append(@, p), !.tasks[p].pc = "rl_wait"]

\* routers/admin.py 84-93
call_set_hf_token(p, token) ==
    /\ Idle(p)
    /\ Commit(set_hf_token(
           [begin(View, p, "set_hf_token", NoKey, None, FALSE, <<>>)
               EXCEPT !.tasks[p].token = token], p))

\* qwen.py 44, on the worker thread: auth_token is read.
load_reads_token(S, p) ==
    LET k == S.tasks[p].key IN
    [S EXCEPT !.tasks[p].pc = "load_env",
              !.tasks[p].token = IF S.inst[k].hf_token \notin {None, ""}
                                 THEN S.inst[k].hf_token
                                 ELSE S.environ["HUGGINGFACE_TOKEN"]]

\* qwen.py 59-70, on the worker thread: setdefault puts auth_token under the
\* names that are absent, and the device plan is published.
load_sets_environment(S, p) ==
    LET k == S.tasks[p].key
        auth_token == S.tasks[p].token
        S1 == IF auth_token \notin {None, ""}
              THEN [S EXCEPT !.environ = [n \in EnvNames |->
                                             IF S.environ[n] = None THEN auth_token
                                             ELSE S.environ[n]]]
              ELSE S
    IN [load_effect(S1, k, "load_0") EXCEPT !.tasks[p].pc = "load_1",
                                            !.tasks[p].token = None]

load_thread_reads_token(p) ==
    tasks[p].pc = "load_0" /\ Commit(load_reads_token(View, p))

load_thread_sets_environment(p) ==
    tasks[p].pc = "load_env" /\ Commit(load_sets_environment(View, p))

load_thread_goes_on(p) ==
    tasks[p].pc \in {"load_1", "load_2"} /\ load_thread(p)

NextCredentials ==
    \/ \E p \in Tasks :
          \/ \E token \in TokenInputs : call_set_hf_token(p, token)
          \/ \E k \in CredentialKeys : call_get(p, k)
          \/ \E k \in LifeKeys : call_ensure_loaded(p, k)
          \/ lock_granted(p)
          \/ load_thread_reads_token(p)
          \/ load_thread_sets_environment(p)
          \/ load_thread_goes_on(p)
          \/ load_returns(p)
          \/ Return(p)

SpecCredentials == Init /\ [][NextCredentials]_vars

\* ------------------------------------------------------ instance cache
CacheTasks == {"chat-completion", "speech-to-text"}

NextCache ==
    \/ \E p \in Tasks :
          \/ \E k \in CredentialKeys : call_get(p, k)
          \/ \E task \in CacheTasks : call_get_by_task(p, task)
          \/ \E k \in LifeKeys : call_registry_ensure_loaded(p, k, FALSE, <<>>)
          \/ \E k \in LifeKeys : call_registry_unload(p, k)
    \/ \E p \in Tasks :
          \/ lock_granted(p)
          \/ load_thread(p)
          \/ load_returns(p)
          \/ unload_returns(p)
          \/ Return(p)

SpecCache == Init /\ [][NextCache]_vars

\* ------------------------------------------------------------ teardown
\* main.py 57-59
call_shutdown(p) ==
    /\ Idle(p)
    /\ Commit(shutdown(begin(View, p, "shutdown", NoKey, None, FALSE, <<>>), p))

ShutdownBegun == \E p \in Tasks : tasks[p].op = "shutdown"

\* Requests are served until the teardown begins; none starts afterwards.
get_before_shutdown(p, k) == ~ShutdownBegun /\ call_get(p, k)

ensure_loaded_before_shutdown(p, k) == ~ShutdownBegun /\ call_ensure_loaded(p, k)

on_shutdown(p) == ~ShutdownBegun /\ call_shutdown(p)

NextShutdown ==
    \/ \E p \in Tasks, k \in CredentialKeys :
          \/ get_before_shutdown(p, k)
          \/ ensure_loaded_before_shutdown(p, k)
    \/ \E p \in Tasks :
          \/ on_shutdown(p)
          \/ lock_granted(p)
          \/ load_thread(p)
          \/ load_returns(p)
          \/ unload_returns(p)
          \/ Return(p)
          \/ \E msg \in UnloadErrors : unload_raises(p, msg)

SpecShutdown == Init /\ [][NextShutdown]_vars

\* --------------------------------------------------------- status reads
\* Variant that takes the instance lock before it reads.
read_runtime_status_locked(S, p) ==
    LET k == S.tasks[p].key IN
    IF S.inst[k].lock = <<>>
    THEN finish([S EXCEPT !.tasks[p].seen = runtime_status(S, k)], p, Ok)
    ELSE [S EXCEPT !.tasks[p].pc = "rs_wait"]

\* base.py 245-250: the snapshot is taken and handed back.
read_runtime_status(S, p) ==
    LET k == S.tasks[p].key IN
    finish([S EXCEPT !.tasks[p].seen = runtime_status(S, k)], p, Ok)

call_runtime_status(p, k) ==
    /\ Idle(p) /\ inst[k].exists
    /\ Commit(read_runtime_status(
           begin(View, p, "runtime_status", k, None, FALSE, <<>>), p))

NextStatus ==
    \/ \E p \in Tasks, k \in LifeKeys :
          \/ call_get(p, k)
          \/ call_ensure_loaded(p, k)
          \/ call_ensure_downloaded(p, k)
          \/ call_unload(p, k)
          \/ call_runtime_status(p, k)
    \/ \E p \in Tasks :
          \/ lock_granted(p)
          \/ load_thread(p)
          \/ load_returns(p)
          \/ download_thread(p)
          \/ download_returns(p)
          \/ unload_returns(p)
          \/ Return(p)
    \/ \E k \in LifeKeys : cache_cleared(k)

SpecStatus == Init /\ [][NextStatus]_vars

\* ------------------------------------------------- the runtime record
MaxClock == 1

\* base.py 229-242: the statements of update_runtime, in order.
FieldOrder ==
    <<"state", "progress", "status", "details", "server", "downloaded", "last_error">>

\* What the threads pass: the poller through emit_progress (base.py 329-342),
\* the lifecycle wrapper on failure, on success and on unload (95-110,
\* 155-162), and a caller that clears the error.
UpdateInputs(w) ==
    IF w = "poller"
    THEN {[NoArgs EXCEPT !.progress = Value(18), !.status = Value("Downloading")]}
    ELSE {[NoArgs EXCEPT !.state = Value("error"), !.status = Value("Load failed"),
                         !.progress = Value(0), !.last_error = Value("boom")],
          [NoArgs EXCEPT !.state = Value("ready"), !.progress = Value(100),
                         !.server = Value("vLLM"), !.details = Value("plan")],
          [NoArgs EXCEPT !.last_error = Omitted],
          [NoArgs EXCEPT !.state = Value("idle"), !.progress = Value(0),
                         !.server = Omitted, !.details = Omitted,
                         !.downloaded = Value(TRUE)]}

\* Variant in which None stands for "not provided" in every argument.
written_none_is_omitted(f, a, old) ==
    IF a.kind = "value" THEN (IF f = "progress" THEN Clamp(a.v) ELSE a.v) ELSE old

\* base.py 229-242: the value of field f after its statement ran with the
\* argument a.
written(f, a, old) ==
    CASE f \in {"state", "status", "downloaded"} ->
            IF a.kind = "value" THEN a.v ELSE old
      [] f = "progress" ->
            IF a.kind = "value" THEN Clamp(a.v) ELSE old
      [] f = "details" ->
            IF a.kind = "unset" THEN old
            ELSE IF a.kind = "none" THEN "{}" ELSE a.v
      [] f \in {"server", "last_error"} ->
            IF a.kind = "unset" THEN old
            ELSE IF a.kind = "none" THEN None ELSE a.v

\* base.py 229-241: the test in front of the statement of field f.
applies(f, a) ==
    IF f \in {"details", "server", "last_error"} THEN a.kind # "unset"
    ELSE a.kind = "value"

\* The first statement from the at-th on whose test passes; the write of
\* updated_at follows the last one.
NextAt(args, at) ==
    LET later == {i \in DOMAIN FieldOrder : i >= at /\ applies(FieldOrder[i], args[FieldOrder[i]])}
    IN IF later = {} THEN Len(FieldOrder) + 1
       ELSE CHOOSE i \in later : \A j \in later : i <= j

\* Variant that reads the record without the lock.
may_copy_unlocked(c) == TRUE

\* base.py 246: `with self._runtime_state_lock` lets the reader in.
may_copy(c) == c.runtime_state_lock = None

\* base.py 228: a thread enters update_runtime and gets the lock.
update_runtime_enters(w, args) ==
    /\ cell.writer[w].at = 0
    /\ cell.runtime_state_lock = None
    /\ Commit([View EXCEPT !.cell.runtime_state_lock = w,
                           !.cell.writer[w] = [at |-> NextAt(args, 1), args |-> args]])

\* base.py 229-242: the next statement runs.
update_runtime_writes(w) ==
    LET at == cell.writer[w].at IN
    /\ at \in DOMAIN FieldOrder
    /\ LET f == FieldOrder[at] IN
       Commit([View EXCEPT
                  !.cell.runtime_state[f] = written(f, cell.writer[w].args[f], @),
                  !.cell.writer[w].at = NextAt(cell.writer[w].args, at + 1)])

\* base.py 243: updated_at is written and the lock released.
update_runtime_leaves(w) ==
    /\ cell.writer[w].at = Len(FieldOrder) + 1
    /\ LET done == [cell.runtime_state EXCEPT !.updated_at = cell.now] IN
       Commit([View EXCEPT !.cell.runtime_state = done,
                           !.cell.committed = done,
                           !.cell.runtime_state_lock = None,
                           !.cell.writer[w] = [at |-> 0, args |-> NoArgs]])

\* datetime.now() has moved on.
clock_ticks ==
    /\ cell.now < MaxClock
    /\ Commit([View EXCEPT !.cell.now = @ + 1])

\* base.py 246-247: the reader copies the record inside the lock.
status_copied ==
    /\ cell.reader.pc = "idle"
    /\ may_copy(cell)
    /\ Commit([View EXCEPT !.cell.reader = [pc |-> "copied",
                                            snapshot |-> cell.runtime_state]])

\* base.py 249-250: the flag is reconciled with the disk and the copy
\* handed back.
status_returned ==
    /\ cell.reader.pc = "copied"
    /\ Commit([View EXCEPT !.cell.reader.pc = "done",
                           !.cell.reader.snapshot.downloaded = @ \/ disk["qwen"]])

\* The caller has taken the snapshot.
status_consumed ==
    /\ cell.reader.pc = "done"
    /\ Commit([View EXCEPT !.cell.reader = NoCell.reader])

NextRecord ==
    \/ \E w \in Writers :
          \/ \E args \in UpdateInputs(w) : update_runtime_enters(w, args)
          \/ update_runtime_writes(w)
          \/ update_runtime_leaves(w)
    \/ clock_ticks
    \/ status_copied
    \/ status_returned
    \/ status_consumed

SpecRecord == Init /\ [][NextRecord]_vars

\* ------------------------------------------------------------ listing
\* model_registry.py 176-185: the entry of a slot that has no instance.
synthetic_runtime(S, k) ==
    [state |-> "idle", progress |-> 0, status |-> <<"Not loaded", "">>,
     server |-> None, last_error |-> None,
     downloaded |-> cache_dir_exists(S, k), updated_at |-> S.cell.now]

\* model_registry.py 164-195, inside the registry lock: one entry per slot.
status_locked(S, p) ==
    LET result == [k \in DOMAIN S.slots |->
                      IF S.inst[k].exists
                      THEN [loaded |-> S.inst[k].is_loaded,
                            runtime |-> runtime_status(S, k)]
                      ELSE [loaded |-> FALSE, runtime |-> synthetic_runtime(S, k)]]
    IN finish([S EXCEPT !.rlock = release(@, p), !.tasks[p].listing = result], p, Ok)

\* model_registry.py 161-163
status(S, p) ==
    IF S.rlock = <<>>
    THEN status_locked([S EXCEPT !.rlock = <<p>>], p)
    ELSE [S EXCEPT !.rlock = Append(@, p), !.tasks[p].pc = "rl_wait"]

\* routers/admin.py 23-24
call_status(p) ==
    /\ Idle(p)
    /\ Commit(status(begin(View, p, "status", NoKey, None, FALSE, <<>>), p))

\* The repository directory of a model is created with nothing in it yet
\* (a fetch that has just begun, or one that was interrupted).
cache_dir_made(k) ==
    /\ k \notin dirs
    /\ dirs' = dirs \cup {k}
    /\ UNCHANGED <<slots, key_order, task_index, rlock, hf_token, inst, disk, tasks,
                   orphans, hist, environ, snap, retry, cell, cuda_visible>>

NextListing ==
    \/ \E p \in Tasks :
          \/ call_status(p)
          \/ \E k \in CredentialKeys : call_get(p, k)
          \/ Return(p)
    \/ \E k \in CredentialKeys :
          \/ cache_dir_made(k)
          \/ cache_filled(k)
          \/ cache_cleared(k)

SpecListing == Init /\ [][NextListing]_vars

\* ------------------------------------------------- the registry lock
\* The registry lock passes to the task at the head of its queue, which
\* goes on inside its `async with self._lock`; `queued` notes the wait.
registry_lock_resumed(S, p) ==
    LET op == S.tasks[p].op
        S1 == [S EXCEPT !.tasks[p].queued = TRUE] IN
    CASE op = "registry_unload" -> registry_unload_locked(S1, p)
      [] op = "shutdown" -> shutdown_from(S1, p, 1)
      [] op = "set_hf_token" -> set_hf_token_locked(S1, p)
      [] op = "status" -> status_locked(S1, p)
      [] OTHER -> get_locked(S1, p)

registry_lock_granted(p) ==
    /\ tasks[p].pc = "rl_wait"
    /\ rlock # <<>> /\ Head(rlock) = p
    /\ Commit(registry_lock_resumed(View, p))

\* Every kind of call the routers and main.py make, side by side.
NextServing ==
    \/ \E p \in Tasks, k \in LifeKeys :
          \/ call_get(p, k)
          \/ call_registry_ensure_loaded(p, k, FALSE, <<>>)
          \/ call_registry_unload(p, k)
          \/ call_ensure_loaded(p, k)
          \/ call_ensure_downloaded(p, k)
          \/ call_unload(p, k)
    \/ \E p \in Tasks :
          \/ call_status(p)
          \/ \E token \in ServingTokens : call_set_hf_token(p, token)
          \/ call_shutdown(p)
          \/ lock_granted(p)
          \/ registry_lock_granted(p)
          \/ load_thread(p)
          \/ load_returns(p)
          \/ download_thread(p)
          \/ download_returns(p)
          \/ unload_returns(p)
          \/ \E msg \in UnloadErrors : unload_raises(p, msg)
          \/ Return(p)

\* What a call that is in flight does next: a resumed coroutine or a step
\* of its worker thread.
Proceeds(p) ==
    \/ lock_granted(p)
    \/ registry_lock_granted(p)
    \/ load_thread(p)
    \/ load_returns(p)
    \/ download_thread(p)
    \/ download_returns(p)
    \/ unload_returns(p)
    \/ \E msg \in UnloadErrors : unload_raises(p, msg)

\* The event loop runs every coroutine that is ready, and every body ends.
SpecServing ==
    /\ Init /\ [][NextServing]_vars
    /\ \A p \in Tasks : WF_vars(Proceeds(p))

\* The qwen instance as a completed load leaves it (qwen.py 44-151, base.py
\* 103-110), on a registry without credential.
LoadedInstance ==
    [exists |-> TRUE, is_loaded |-> TRUE, lock |-> <<>>, pref |-> DefaultPref,
     rt |-> [state |-> "ready", progress |-> 100, status |-> <<"Model ready", "">>,
             server |-> "vLLM", last_error |-> None, downloaded |-> TRUE,
             updated_at |-> 0],
     engine |-> "up", hf_token |-> None, made_with |-> None, used |-> DefaultPref,
     visible_devices_backup |-> Unset, visible_before |-> Unset]

\* The service at a quiet moment: the chat model was never asked for, or it
\* is loaded and no call is in flight.
InitQuiet ==
    /\ slots = [k \in {DefaultKeys[i] : i \in DOMAIN DefaultKeys} |-> DefaultSlot(k)]
    /\ key_order = DefaultKeys
    /\ task_index = [t \in {TaskOf(DefaultKeys[i]) : i \in DOMAIN DefaultKeys} |->
                        CHOOSE k \in {DefaultKeys[i] : i \in DOMAIN DefaultKeys} : TaskOf(k) = t]
    /\ rlock = <<>>
    /\ hf_token = None
    /\ \E loaded \in BOOLEAN :
          /\ inst = [k \in AllKeys |->
                        IF loaded /\ k \in LifeKeys THEN LoadedInstance ELSE NoInstance]
          /\ disk = [k \in AllKeys |-> loaded /\ k \in LifeKeys]
          /\ hist = [k \in AllKeys |->
                        IF loaded /\ k \in LifeKeys
                        THEN [NoHist EXCEPT !.factory_calls = 1] ELSE NoHist]
          /\ cuda_visible = IF loaded THEN Visible(DefaultPref) ELSE Unset
    /\ dirs = {k \in AllKeys : disk[k]}
    /\ tasks = [p \in Tasks |-> IdleTask]
    /\ orphans = [k \in AllKeys |-> {}]
    /\ environ = [n \in EnvNames |-> None]
    /\ snap = NoSnapshot
    /\ retry = NoRetry
    /\ cell = NoCell

\* Each handler task makes one call, of any kind, and runs it to its end.
NextCalls ==
    \/ \E p \in Tasks, k \in LifeKeys :
          \/ call_get(p, k)
          \/ call_registry_ensure_loaded(p, k, FALSE, <<>>)
          \/ call_registry_unload(p, k)
          \/ call_ensure_loaded(p, k)
          \/ call_ensure_downloaded(p, k)
          \/ call_unload(p, k)
    \/ \E p \in Tasks :
          \/ call_status(p)
          \/ \E token \in ServingTokens : call_set_hf_token(p, token)
          \/ call_shutdown(p)
          \/ lock_granted(p)
          \/ registry_lock_granted(p)
          \/ load_thread(p)
          \/ load_returns(p)
          \/ download_thread(p)
          \/ download_returns(p)
          \/ unload_returns(p)
          \/ \E msg \in UnloadErrors : unload_raises(p, msg)

\* The event loop runs every coroutine that is ready, and every body ends.
SpecCalls ==
    /\ InitQuiet /\ [][NextCalls]_vars
    /\ \A p \in Tasks : WF_vars(Proceeds(p))

\* ------------------------------------------- lifecycle under the clock
\* The lifecycle calls of one instance while datetime.now() moves on.
NextTimed ==
    \/ \E p \in Tasks, k \in LifeKeys :
          \/ call_get(p, k)
          \/ call_ensure_loaded(p, k)
          \/ call_ensure_downloaded(p, k)
          \/ call_unload(p, k)
    \/ \E p \in Tasks :
          \/ lock_granted(p)
          \/ load_thread(p)
          \/ load_returns(p)
          \/ download_thread(p)
          \/ download_returns(p)
          \/ unload_returns(p)
          \/ Return(p)
    \/ \E k \in LifeKeys : cache_cleared(k)
    \/ clock_ticks

SpecTimed == Init /\ [][NextTimed]_vars

\* ----------------------------------------------------- visible devices
\* What CUDA_VISIBLE_DEVICES may hold when the server process is launched:
\* nothing, or the devices the operator exposed.
LaunchSettings == {Unset, Visible(<<0, 1>>)}

\* The registry after configure() in a process launched with either setting.
InitLaunch ==
    /\ slots = [k \in {DefaultKeys[i] : i \in DOMAIN DefaultKeys} |-> DefaultSlot(k)]
    /\ key_order = DefaultKeys
    /\ task_index = [t \in {TaskOf(DefaultKeys[i]) : i \in DOMAIN DefaultKeys} |->
                        CHOOSE k \in {DefaultKeys[i] : i \in DOMAIN DefaultKeys} : TaskOf(k) = t]
    /\ rlock = <<>>
    /\ hf_token = None
    /\ inst = [k \in AllKeys |-> NoInstance]
    /\ disk = [k \in AllKeys |-> k \in LifeKeys]
    /\ tasks = [p \in Tasks |-> IdleTask]
    /\ orphans = [k \in AllKeys |-> {}]
    /\ hist = [k \in AllKeys |-> NoHist]
    /\ environ = [n \in EnvNames |-> None]
    /\ snap = NoSnapshot
    /\ retry = NoRetry
    /\ cell = NoCell
    /\ dirs = {k \in AllKeys : disk[k]}
    /\ cuda_visible \in LaunchSettings

\* Loads and unloads of the chat model, some of which fail.
NextDevices ==
    \/ \E p \in Tasks, k \in LifeKeys :
          \/ call_get(p, k)
          \/ call_ensure_loaded(p, k)
          \/ call_unload(p, k)
    \/ \E p \in Tasks :
          \/ lock_granted(p)
          \/ load_thread(p)
          \/ load_returns(p)
          \/ load_raises(p)
          \/ unload_returns(p)
          \/ Return(p)
          \/ \E msg \in LoadErrors : load_thread_raises(p, msg)
          \/ \E msg \in UnloadErrors : unload_raises(p, msg)

SpecDevices == InitLaunch /\ [][NextDevices]_vars

\* ================================================================ claims
Range(q) == {q[i] : i \in DOMAIN q}

LoadPcs == {"load_0", "load_1", "load_2", "load_ok", "load_err"}
DownloadPcs == {"dl_0", "dl_1", "dl_ok", "dl_err"}
UnloadPcs == {"ul_body"}
BodyPcs == LoadPcs \cup DownloadPcs \cup UnloadPcs
WaitPcs == {"el_wait", "ed_wait", "ul_wait"}

On(k, pcs) == {p \in Tasks : tasks[p].key = k /\ tasks[p].pc \in pcs}

Finished(p, op) == tasks[p].pc = "done" /\ tasks[p].op = op

\* C1 as stated: among concurrent ensure_loaded() calls, load() is executed
\* at most once before is_loaded becomes true.
C1_LoadOnceAsStated == \A k \in AllKeys : hist[k].load_calls <= 1

\* C1 as amended: among concurrent ensure_loaded() calls at most one
\* execution of load() that does not raise is started before is_loaded
\* becomes true, so a further execution starts only after an earlier one
\* raised, and none is started while the instance is loaded; at most one
\* is in flight; and a call fails only with the error its own load() raised.
C1_LoadOnceUnlessRaised ==
    /\ \A k \in AllKeys :
          /\ hist[k].load_live <= (IF inst[k].is_loaded THEN 0 ELSE 1)
          /\ Cardinality(On(k, LoadPcs)) <= 1
    /\ \A p \in Tasks :
          Finished(p, "ensure_loaded") /\ tasks[p].res.kind = "raised"
             => tasks[p].bodies = <<"load">> /\ tasks[p].res.val \in LoadErrors

\* Two ensure_loaded() calls overlapped, one ran load() and the other, which
\* had waited for the lock, returned without running it; both succeeded.
C1_Witness ==
    \E p, q \in Tasks :
        /\ p # q
        /\ Finished(p, "ensure_loaded") /\ Finished(q, "ensure_loaded")
        /\ tasks[p].res = Ok /\ tasks[q].res = Ok
        /\ tasks[p].bodies = <<"load">>
        /\ tasks[q].waited /\ tasks[q].bodies = <<>>

\* C2 as stated: among concurrent ensure_downloaded() calls, download() is
\* executed at most once while the artifacts are absent from the disk.
C2_DownloadOnceAsStated == \A k \in AllKeys : hist[k].dl_calls <= 1

\* C2 as amended: download() is started only while the artifacts are absent,
\* at most one execution is in flight, and during one absence a further
\* execution starts only after an earlier one raised.
C2_DownloadOnceUnlessRaised ==
    /\ \A k \in AllKeys :
          /\ hist[k].dl_live <= (IF disk[k] THEN 0 ELSE 1)
          /\ Cardinality(On(k, DownloadPcs)) <= 1
    /\ \A p \in Tasks : tasks[p].pc = "dl_0" => ~disk[tasks[p].key]

\* Two ensure_downloaded() calls overlapped, one ran download() and the
\* other, which had waited for the lock, found the artifacts and returned.
C2_Witness ==
    \E p, q \in Tasks :
        /\ p # q
        /\ Finished(p, "ensure_downloaded") /\ Finished(q, "ensure_downloaded")
        /\ tasks[p].res = Ok /\ tasks[q].res = Ok
        /\ tasks[p].bodies = <<"download">>
        /\ tasks[q].waited /\ tasks[q].bodies = <<>>

C4_InferNotDuringUnload ==
    [][\A p \in Tasks :
          tasks[p].pc # "infer_run" /\ tasks'[p].pc = "infer_run"
             => ~\E q \in Tasks : /\ tasks'[q].key = tasks'[p].key
                                   /\ tasks'[q].pc \in UnloadPcs]_vars

\* C5: when load() raises inside ensure_loaded(), called directly or through
\* registry.ensure_loaded, the step that handles it publishes state=error
\* with last_error equal to the message, leaves is_loaded false, releases the
\* lock, and ends the call with the same exception.
C5_LoadErrorRecordedAndRaised ==
    [][\A p \in Tasks :
          tasks[p].pc = "load_err" /\ tasks'[p].pc # "load_err"
             => LET k == tasks[p].key
                    msg == tasks[p].exc IN
                /\ msg \in LoadErrors
                /\ tasks'[p].pc = "done"
                /\ tasks'[p].res = Raised(msg)
                /\ inst'[k].rt.state = "error"
                /\ inst'[k].rt.last_error = msg
                /\ ~inst'[k].is_loaded
                /\ p \notin Range(inst'[k].lock)]_vars

\* A registry.ensure_loaded call ended with the exception of load(), which
\* is recorded on the instance, and the lock is free again.
C5_Witness ==
    \E p \in Tasks :
        /\ Finished(p, "registry_ensure_loaded")
        /\ tasks[p].res.kind = "raised" /\ tasks[p].res.val \in LoadErrors
        /\ tasks[p].bodies = <<"load">>
        /\ inst[tasks[p].key].rt.state = "error"
        /\ inst[tasks[p].key].rt.last_error = tasks[p].res.val
        /\ ~inst[tasks[p].key].is_loaded
        /\ inst[tasks[p].key].lock = <<>>

\* C6: a failed load does not poison the instance: an ensure_loaded() call
\* that finds state=error invokes load() again once it has the lock, and a
\* load() that returns leaves the instance loaded with state=ready.
C6_FailedLoadRetried ==
    [][\A p \in Tasks :
          LET k == tasks'[p].key IN
          /\ ( /\ tasks[p].pc = "idle" /\ tasks'[p].op = "ensure_loaded"
               /\ inst[k].rt.state = "error" )
                => \/ tasks'[p].pc = "load_0" /\ tasks'[p].bodies = <<"load">>
                   \/ tasks'[p].pc = "el_wait" /\ inst[k].lock # <<>>
          /\ ( /\ tasks[p].pc = "el_wait" /\ tasks'[p].pc # "el_wait"
               /\ inst[k].rt.state = "error" )
                => tasks'[p].pc = "load_0" /\ tasks'[p].bodies = <<"load">>
          /\ ( tasks[p].pc = "load_ok" /\ tasks'[p].pc # "load_ok" )
                => inst'[k].is_loaded /\ inst'[k].rt.state = "ready"]_vars

\* After a load that failed, a later ensure_loaded() has loaded the instance.
C6_Witness ==
    \E p \in Tasks :
        /\ Finished(p, "ensure_loaded") /\ tasks[p].res = Ok
        /\ tasks[p].bodies = <<"load">>
        /\ inst[tasks[p].key].is_loaded
        /\ inst[tasks[p].key].rt.state = "ready"
        /\ inst[tasks[p].key].rt.last_error \in LoadErrors

\* C7: registry.ensure_loaded(key, device_ids) on an instance loaded with
\* another preference, with no other call meanwhile, runs _unload() once and
\* then load() once and nothing else; the preference is the new one, and when
\* the call returns the instance is loaded.
C7_PreferenceChangeReloads ==
    \A p \in Tasks :
        LET t == tasks[p] IN
        ( /\ Finished(p, "registry_ensure_loaded")
          /\ t.alone /\ t.given /\ t.pre_loaded /\ t.pre_pref # t.ids )
            => /\ inst[t.key].pref = t.ids
               /\ t.bodies \in {<<"unload">>, <<"unload", "load">>}
               /\ t.res = Ok => /\ t.bodies = <<"unload", "load">>
                                /\ inst[t.key].is_loaded
                                /\ inst[t.key].rt.state = "ready"

\* ensure_loaded(key, device_ids=[1]) found the instance loaded with [0] and
\* has returned.
C7_Witness ==
    \E p \in Tasks :
        /\ Finished(p, "registry_ensure_loaded") /\ tasks[p].res = Ok
        /\ tasks[p].alone /\ tasks[p].given /\ tasks[p].pre_loaded
        /\ tasks[p].pre_pref = <<0>> /\ tasks[p].ids = <<1>>
        /\ inst[tasks[p].key].pref = <<1>>

\* C8: when the caller of ensure_loaded() is cancelled while load() is in
\* flight, the instance is not left in state "loading": once the worker has
\* ended and no call is in flight the state is ready or error (or idle).
C8_NotLeftLoading ==
    \A k \in AllKeys :
        (orphans[k] = {} /\ \A p \in Tasks : ~InFlight(tasks[p]))
            => inst[k].rt.state # "loading"

\* C9: register() with a key that is already registered fails with the
\* duplicate-key error and leaves every slot, the order of the keys and the
\* task index as they were.
C9_DuplicateRegistrationRefused ==
    [][\A p \in Tasks :
          ( /\ tasks[p].pc = "idle" /\ tasks'[p].op = "register"
            /\ tasks'[p].key \in DOMAIN slots )
             => /\ tasks'[p].res = Raised("ValueError: DuplicateKey")
                /\ slots' = slots
                /\ key_order' = key_order
                /\ task_index' = task_index]_vars

\* "dummy" was registered and a second registration of it has been refused.
C9_Witness ==
    \E p \in Tasks :
        /\ Finished(p, "register") /\ tasks[p].key = "dummy"
        /\ tasks[p].res = Raised("ValueError: DuplicateKey")
        /\ "dummy" \in DOMAIN slots
        /\ Len(key_order) = Len(DefaultKeys) + 1

\* C10: get() with a key no slot has and get_by_task() with a task no slot
\* declares fail with the lookup error, and change no slot, instance, index
\* entry or token and call no factory.
C10_UnknownLookupsFail ==
    [][\A p \in Tasks :
          /\ ( /\ tasks[p].pc = "idle" /\ tasks'[p].op = "get"
               /\ tasks'[p].key \notin DOMAIN slots )
                => /\ tasks'[p].res = Raised("KeyError: Unknown model key")
                   /\ UNCHANGED <<slots, key_order, task_index, hf_token, inst>>
                   /\ \A k \in AllKeys : hist'[k].factory_calls = hist[k].factory_calls
          /\ ( /\ tasks[p].pc = "idle" /\ tasks'[p].op = "get_by_task"
               /\ tasks'[p].task \notin DOMAIN task_index )
                => /\ tasks'[p].res = Raised("KeyError: No model registered for task")
                   /\ UNCHANGED <<slots, key_order, task_index, hf_token, inst>>
                   /\ \A k \in AllKeys : hist'[k].factory_calls = hist[k].factory_calls]_vars

\* Both lookups have failed, one by key and one by task.
C10_Witness ==
    \E p, q \in Tasks :
        /\ Finished(p, "get") /\ tasks[p].key \notin DOMAIN slots
        /\ tasks[p].res = Raised("KeyError: Unknown model key")
        /\ Finished(q, "get_by_task") /\ tasks[q].task \notin DOMAIN task_index
        /\ tasks[q].res = Raised("KeyError: No model registered for task")

\* C11: the stored progress is an integer of 0..100 after every step, and
\* update_runtime(progress=p) stores 100 for p above 100, 0 for p below 0 and
\* int(p) in between, whoever issues it.
C11_ProgressClamped ==
    [][/\ \A k \in AllKeys : inst'[k].rt.progress \in 0..100
       /\ \A k \in LifeKeys, p10 \in ProgressInputs :
             call_update_runtime(k, p10)
                => inst'[k].rt.progress =
                      (IF p10 > 1000 THEN 100
                       ELSE IF p10 < 0 THEN 0
                       ELSE int_of_tenths(p10))]_vars

\* update_runtime(progress=150) was issued on a fresh instance, which shows
\* progress 100 with nothing else changed.
C11_Witness ==
    \E k \in LifeKeys :
        /\ inst[k].exists
        /\ inst[k].rt.state = "idle" /\ inst[k].rt.status = <<"Idle", "">>
        /\ inst[k].rt.progress = 100

\* C12: whenever artifacts are on the disk, runtime_status() of an instance
\* reports downloaded=true, whatever the stored flag says.
C12_StatusReconciledWithDisk ==
    \A k \in AllKeys :
        inst[k].exists /\ is_downloaded(View, k) => runtime_status(View, k).downloaded

\* Artifacts are on the disk while the stored flag is still false.
C12_Witness ==
    \E k \in LifeKeys :
        /\ inst[k].exists /\ disk[k]
        /\ ~inst[k].rt.downloaded
        /\ runtime_status(View, k).downloaded

\* C14: with a known total T > 0 and the sub-range [start, end], reporting c
\* bytes leaves start + floor((end - start) * min(1, c / T)) as the progress
\* last published.
C14_MappedProgressExact ==
    (snap.phase = "fetching" /\ snap.total_to_use > 0)
        => snap.last_progress =
              snap.start_progress
              + ((snap.end_progress - snap.start_progress)
                    * Min(snap.current_bytes, snap.total_to_use)) \div snap.total_to_use

\* C13: when download() raises inside ensure_downloaded() on an instance that
\* is not loaded, the call ends with that exception and runtime_status()
\* reports state=error, last_error equal to its text and downloaded=false.
C13_DownloadErrorRecordedAndRaised ==
    [][\A p \in Tasks :
          ( /\ tasks[p].pc = "dl_err" /\ tasks'[p].pc # "dl_err"
            /\ ~tasks[p].was_loaded )
             => LET k == tasks[p].key
                    msg == tasks[p].exc IN
                /\ msg \in DownloadErrors
                /\ tasks'[p].pc = "done"
                /\ tasks'[p].res = Raised(msg)
                /\ runtime_status(View', k).state = "error"
                /\ runtime_status(View', k).last_error = msg
                /\ ~runtime_status(View', k).downloaded]_vars

\* An ensure_downloaded() call on an idle instance ended with the exception
\* of download(), which the runtime state shows.
C13_Witness ==
    \E p \in Tasks :
        /\ Finished(p, "ensure_downloaded")
        /\ tasks[p].res.kind = "raised" /\ tasks[p].res.val \in DownloadErrors
        /\ ~inst[tasks[p].key].is_loaded
        /\ runtime_status(View, tasks[p].key).state = "error"
        /\ runtime_status(View, tasks[p].key).last_error = tasks[p].res.val
        /\ ~runtime_status(View, tasks[p].key).downloaded

\* C15: unload() on an instance whose state is idle and that is not loaded
\* leaves every field runtime_status() reports as it was, and is_loaded false.
C15_UnloadIdleChangesNothing ==
    [][\A p \in Tasks :
          LET k == tasks'[p].key IN
          ( /\ tasks[p].pc = "idle" /\ tasks'[p].op = "unload" /\ tasks'[p].pc = "done"
            /\ inst[k].rt.state = "idle" /\ ~inst[k].is_loaded )
             => /\ runtime_status(View', k) = runtime_status(View, k)
                /\ ~inst'[k].is_loaded]_vars

\* What the retry policy calls transient: a connection, timeout, TLS or
\* chunked-transfer error (of requests or of urllib3), or an HTTP response
\* with a 5xx status.
Transient(error) ==
    \/ error.type \in {"ConnectionError", "Timeout", "SSLError", "ChunkedEncodingError",
                       "urllib3.HTTPError"}
    \/ error.type = "HfHubHTTPError" /\ error.status \in 500..599

C17_AttemptsBounded ==
    /\ [](/\ retry.fetches <= Max(retry.max_attempts, 0)
          /\ (retry.phase = "fetching")
                => (retry.attempt = retry.fetches + 1 /\ retry.sleeps = retry.fetches)
          /\ (retry.phase \in {"sleeping", "done"} /\ retry.fetches > 0)
                => (retry.sleeps = retry.fetches - 1)
          /\ (retry.phase = "done" /\ retry.outcome = "returned")
                => (retry.fetches = retry.attempt)
          /\ (retry.phase = "done" /\ retry.outcome = "raised" /\ retry.fetches > 0)
                => (retry.error = retry.caught))
    /\ (retry.phase = "fetching" ~> retry.phase = "done")

\* Every one of three attempts failed with a transient error and the call
\* raised the last one after two sleeps.
C17_Witness ==
    /\ retry.phase = "done" /\ retry.outcome = "raised"
    /\ retry.max_attempts = 3 /\ retry.fetches = 3 /\ retry.sleeps = 2
    /\ Transient(retry.error) /\ retry.error = retry.caught

\* The environment holds what _apply_token_to_environment leaves for token.
EnvironmentOf(token) ==
    [n \in EnvNames |-> IF token \notin {None, ""} THEN token ELSE None]

\* C18: once set_hf_token() or configure() has completed, both environment
\* variables equal the registry's token when it is non-empty and are absent
\* when it is None or empty.
C18_EnvironmentFollowsToken == environ = EnvironmentOf(hf_token)

\* C19: every constructed instance holds the registry's current token: the
\* one set_hf_token pushed into it, or the one current when it was made.
C19_InstancesHoldToken ==
    \A k \in AllKeys : inst[k].exists => inst[k].hf_token = hf_token

\* One instance was made before the token was set and has received it,
\* another was made afterwards with it.
C19_Witness ==
    \E k1, k2 \in CredentialKeys :
        /\ hf_token = "test-token"
        /\ inst[k1].exists /\ inst[k1].made_with = None
        /\ inst[k1].hf_token = "test-token"
        /\ inst[k2].exists /\ inst[k2].made_with = "test-token"

\* C20: over any sequence of get() and get_by_task() calls the factory of a
\* slot is invoked at most once, every such call returns the instance that
\* one invocation made, and no step, unload included, discards it.
C20_FactoryOnceInstanceKept ==
    /\ [](\A k \in AllKeys :
              /\ hist[k].factory_calls <= 1
              /\ inst[k].exists <=> hist[k].factory_calls = 1
              /\ \A p \in Tasks :
                    ((Finished(p, "get") \/ Finished(p, "get_by_task"))
                        /\ tasks[p].res = [kind |-> "ok", val |-> k])
                    => inst[k].exists)
    /\ [][\A k \in AllKeys : inst[k].exists => inst'[k].exists]_vars

\* get() and get_by_task() have both returned the chat model, which was
\* made once and has been unloaded since.
C20_Witness ==
    \E p, q \in Tasks :
        /\ Finished(p, "get") /\ Finished(q, "get_by_task")
        /\ tasks[p].res = [kind |-> "ok", val |-> "qwen"]
        /\ tasks[q].res = tasks[p].res
        /\ hist["qwen"].factory_calls = 1
        /\ inst["qwen"].exists /\ inst["qwen"].rt.status = <<"Model unloaded", "">>

\* C21: at the step at which shutdown() returns, is_loaded is false for every
\* slot, the instances whose load was in flight when shutdown() was called
\* included; no ensure_loaded call starts once shutdown() has begun.
C21_ShutdownLeavesNothingLoaded ==
    [][\A p \in Tasks :
          (/\ tasks[p].op = "shutdown" /\ tasks[p].pc # "done"
           /\ tasks'[p].pc = "done" /\ tasks'[p].res = Ok)
          => \A k \in AllKeys : ~inst'[k].is_loaded]_vars

Count(q, x) == Cardinality({i \in DOMAIN q : q[i] = x})

\* C22: registry.ensure_loaded(key, device_ids) goes to the instance's
\* unload exactly when device_ids is supplied, differs from the preference
\* the instance has and the instance is loaded; each call runs _unload() at
\* most once, before any load(), and load() at most once; a registry.unload()
\* of an existing instance that returns has run _unload() exactly once and
\* leaves is_loaded false.
C22_UnloadOnlyOnPreferenceChange ==
    /\ [](\A p \in Tasks :
             tasks[p].op = "registry_ensure_loaded"
             => /\ Count(tasks[p].bodies, "load") <= 1
                /\ Count(tasks[p].bodies, "unload") <= 1
                /\ tasks[p].bodies \in {<<>>, <<"load">>, <<"unload">>, <<"unload", "load">>}
                /\ (tasks[p].pc \in {"ul_wait", "ul_body"}
                       \/ "unload" \in Range(tasks[p].bodies)) => tasks[p].given)
    /\ [][\A p \in Tasks :
            /\ ( /\ Idle(p) /\ tasks'[p].op = "registry_ensure_loaded"
                 /\ tasks'[p].key \in DOMAIN slots )
               => LET k == tasks'[p].key IN
                  (tasks'[p].pc \in {"ul_wait", "ul_body"}
                      \/ "unload" \in Range(tasks'[p].bodies))
                  <=> ( /\ tasks'[p].given
                        /\ tasks'[p].ids # inst[k].pref
                        /\ inst[k].is_loaded )
            /\ ( /\ tasks[p].pc # "done" /\ tasks'[p].op = "registry_unload"
                 /\ tasks'[p].pc = "done" /\ tasks'[p].res = Ok
                 /\ inst[tasks'[p].key].exists )
               => /\ tasks'[p].bodies = <<"unload">>
                  /\ ~inst'[tasks'[p].key].is_loaded]_vars

\* ensure_loaded(key, device_ids=[1]) found the instance loaded with another
\* preference, unloaded and loaded it; a registry.unload() has returned since.
C22_Witness ==
    \E p, q \in Tasks :
        /\ Finished(p, "registry_ensure_loaded") /\ tasks[p].given
        /\ tasks[p].ids = <<1>> /\ tasks[p].bodies = <<"unload", "load">>
        /\ Finished(q, "registry_unload") /\ tasks[q].res = Ok
        /\ tasks[q].bodies = <<"unload">> /\ tasks[q].key = tasks[p].key
        /\ ~inst[tasks[p].key].is_loaded
        /\ inst[tasks[p].key].rt.status = <<"Model unloaded", "">>

\* C23: while download() runs inside ensure_downloaded() on a loaded
\* instance, and when it has returned or raised, the state is the one the
\* instance had before, ready; on an instance that is not loaded the state
\* is loading while download() runs.
C23_DownloadKeepsReady ==
    /\ [](\A p \in Tasks :
             tasks[p].pc \in DownloadPcs
             => LET k == tasks[p].key IN
                IF tasks[p].was_loaded
                THEN /\ runtime_status(View, k).state = tasks[p].prev
                     /\ runtime_status(View, k).state = "ready"
                ELSE runtime_status(View, k).state = "loading")
    /\ [][\A p \in Tasks :
            ( /\ tasks[p].pc \in {"dl_ok", "dl_err"} /\ tasks'[p].pc = "done"
              /\ tasks[p].was_loaded )
               => /\ runtime_status(View', tasks[p].key).state = tasks[p].prev
                  /\ runtime_status(View', tasks[p].key).state = "ready"]_vars

\* download() runs on a loaded instance whose cache was emptied, and the
\* state shown is ready.
C23_Witness ==
    \E p \in Tasks :
        /\ tasks[p].pc = "dl_1" /\ tasks[p].was_loaded
        /\ inst[tasks[p].key].is_loaded
        /\ runtime_status(View, tasks[p].key).state = "ready"
        /\ runtime_status(View, tasks[p].key).progress = 18

\* C24: runtime_status() never waits for the instance lock: a call returns
\* at once with the snapshot of that moment, also while a load, a download
\* or an unload of the instance holds the lock, and leaves the lock alone.
C24_StatusNeverWaits ==
    /\ [](\A p \in Tasks : tasks[p].op = "runtime_status" => tasks[p].pc = "done")
    /\ [][\A p \in Tasks :
            (Idle(p) /\ tasks'[p].op = "runtime_status")
            => /\ tasks'[p].seen = runtime_status(View, tasks'[p].key)
               /\ inst' = inst]_vars

\* A status read has returned "loading" while the load that holds the lock
\* is still running.
C24_Witness ==
    \E p, q \in Tasks :
        /\ Finished(p, "runtime_status") /\ tasks[p].seen.state = "loading"
        /\ tasks[p].seen.progress = 12
        /\ tasks[q].pc = "load_1" /\ tasks[q].key = tasks[p].key
        /\ Holds(View, tasks[q].key, q)

\* C25: the snapshot runtime_status() copies is the record as some completed
\* update_runtime call left it (or the initial one), never one in which part
\* of the fields of a call are written and updated_at is not, whichever
\* threads are updating.
C25_SnapshotIsWholeUpdates ==
    [][(cell.reader.pc = "idle" /\ cell'.reader.pc = "copied")
          => cell'.reader.snapshot = cell.committed]_vars

\* The reader holds a snapshot of a completed update while a writer is in
\* the middle of the next one.
C25_Witness ==
    /\ cell.reader.pc = "copied"
    /\ cell.reader.snapshot = cell.committed
    /\ cell.reader.snapshot.updated_at > 0
    /\ cell.runtime_state_lock = "poller"
    /\ cell.runtime_state.progress # cell.committed.progress

\* C29: a completed update_runtime call has changed exactly the fields it
\* was given, and updated_at: a field not provided keeps the value it had, a
\* field given None explicitly (details, server, last_error) is cleared.
C29_OnlyGivenFieldsChange ==
    [][\A w \in Writers :
          (cell.writer[w].at = Len(FieldOrder) + 1 /\ cell'.writer[w].at = 0)
          => LET a == cell.writer[w].args
                 before == cell.committed
                 after == cell'.runtime_state IN
             /\ \A f \in {"state", "status", "downloaded"} :
                   after[f] = IF a[f].kind = "value" THEN a[f].v ELSE before[f]
             /\ after.progress = IF a.progress.kind = "value"
                                 THEN Max(0, Min(100, a.progress.v))
                                 ELSE before.progress
             /\ \A f \in {"server", "last_error"} :
                   after[f] = CASE a[f].kind = "unset" -> before[f]
                                [] a[f].kind = "none" -> None
                                [] a[f].kind = "value" -> a[f].v
             /\ after.details = CASE a.details.kind = "unset" -> before.details
                                  [] a.details.kind = "none" -> "{}"
                                  [] a.details.kind = "value" -> a.details.v
             /\ after.updated_at = cell.now]_vars

\* update_runtime(last_error=None) has run on a record that held an error:
\* the error is gone and the other fields are what they were.
C29_Witness ==
    \E w \in Writers :
        /\ cell.writer[w].at = Len(FieldOrder) + 1
        /\ cell.writer[w].args = [NoArgs EXCEPT !.last_error = Omitted]
        /\ cell.committed.last_error = "boom"
        /\ cell.runtime_state.last_error = None
        /\ cell.runtime_state.state = "error"
        /\ cell.runtime_state.status = "Load failed"

\* C26: during one download_snapshot call with a known total, a progress
\* report never publishes a percentage below the one published before it,
\* whatever byte counts are reported and in whatever order.
C26_ProgressNeverDecreases ==
    [][( /\ snap.phase = "fetching" /\ snap'.phase = "fetching"
         /\ snap'.total_to_use > 0 /\ snap'.published
         /\ snap' # snap )
          => /\ snap'.last_progress >= snap.last_progress
             /\ inst'[snap.key].rt.progress >= snap.last_progress]_vars

\* C27: once download_snapshot has returned or raised, the monitor thread
\* publishes nothing more: the runtime state is what the return left.
C27_MonitorSilentAfterReturn ==
    [][( /\ snap.phase \in {"returned", "raised"}
         /\ snap.monitor = "emit" /\ snap'.monitor # "emit" )
          => inst'[snap.key].rt = inst[snap.key].rt]_vars

\* C28: when unload() completes successfully, is_loaded is false, the state
\* is idle, the progress 0, the server descriptor null, and the stored
\* downloaded flag is what the cache directory holds at that moment.
C28_UnloadResetsRuntime ==
    [][\A p \in Tasks :
          ( /\ tasks[p].pc # "done" /\ tasks'[p].op = "unload"
            /\ tasks'[p].pc = "done" /\ tasks'[p].res = Ok )
          => LET k == tasks'[p].key IN
             /\ ~inst'[k].is_loaded
             /\ inst'[k].rt.state = "idle"
             /\ inst'[k].rt.progress = 0
             /\ inst'[k].rt.server = None
             /\ inst'[k].rt.downloaded = disk[k]
             /\ runtime_status(View', k).state = "idle"
             /\ runtime_status(View', k).server = None]_vars

\* unload() has returned on an instance that had been loaded and whose
\* cache was emptied meanwhile.
C28_Witness ==
    \E p, q \in Tasks :
        /\ Finished(q, "ensure_loaded") /\ tasks[q].res = Ok
        /\ tasks[q].bodies = <<"load">> /\ tasks[q].key = tasks[p].key
        /\ Finished(p, "unload") /\ tasks[p].res = Ok
        /\ tasks[p].bodies = <<"unload">>
        /\ ~inst[tasks[p].key].is_loaded
        /\ inst[tasks[p].key].engine = "none"
        /\ inst[tasks[p].key].rt.state = "idle"
        /\ inst[tasks[p].key].rt.server = None
        /\ ~inst[tasks[p].key].rt.downloaded /\ ~disk[tasks[p].key]
        /\ hist[tasks[p].key].factory_calls = 1

\* The operation the step of task p belongs to.
OpOfStep(p) == IF tasks[p].pc = "idle" THEN tasks'[p].op ELSE tasks[p].op

LoadTransitions ==
    {<<"idle", "loading">>, <<"error", "loading">>,
     <<"loading", "ready">>, <<"loading", "error">>}

\* C30 as stated: under ensure_loaded the state only goes idle or error ->
\* loading -> ready or error, under unload only ready -> idle; it never
\* becomes ready from anything but loading; and every ensure_loaded() that
\* returns successfully ends with state ready and progress 100.
C30_TransitionsAsStated ==
    [][\A k \in LifeKeys, p \in Tasks :
          tasks'[p] # tasks[p]
          => LET a == inst[k].rt.state
                 b == inst'[k].rt.state IN
             /\ (OpOfStep(p) \in {"ensure_loaded", "infer"} /\ a # b)
                   => <<a, b>> \in LoadTransitions
             /\ (OpOfStep(p) = "unload" /\ a # b) => <<a, b>> = <<"ready", "idle">>
             /\ (b = "ready" /\ a # "ready") => a = "loading"
             /\ ( /\ OpOfStep(p) = "ensure_loaded" /\ tasks'[p].key = k
                  /\ tasks[p].pc # "done" /\ tasks'[p].pc = "done"
                  /\ tasks'[p].res = Ok )
                   => (b = "ready" /\ inst'[k].rt.progress = 100)]_vars

\* C30 amended: under ensure_loaded the state only goes idle or error ->
\* loading -> ready or error; under unload it only goes to idle, from ready
\* or from error; it never becomes ready from anything but loading; an
\* ensure_loaded() whose load() returned ends with state ready and progress
\* 100, and one that finds the instance loaded leaves the state ready.
C30_Transitions ==
    [][\A k \in LifeKeys, p \in Tasks :
          tasks'[p] # tasks[p]
          => LET a == inst[k].rt.state
                 b == inst'[k].rt.state IN
             /\ (OpOfStep(p) \in {"ensure_loaded", "infer"} /\ a # b)
                   => <<a, b>> \in LoadTransitions
             /\ (OpOfStep(p) = "unload" /\ a # b)
                   => (a \in {"ready", "error"} /\ b = "idle")
             /\ (b = "ready" /\ a # "ready") => a = "loading"
             /\ ( /\ OpOfStep(p) = "ensure_loaded" /\ tasks'[p].key = k
                  /\ tasks[p].pc # "done" /\ tasks'[p].pc = "done"
                  /\ tasks'[p].res = Ok )
                   => /\ b = "ready"
                      /\ tasks[p].pc = "load_ok" => inst'[k].rt.progress = 100]_vars

\* ensure_loaded() has loaded an instance whose earlier load had failed:
\* the state went error -> loading -> ready.
C30_Witness ==
    \E p, q \in Tasks :
        /\ Finished(q, "ensure_loaded") /\ tasks[q].res.kind = "raised"
        /\ Finished(p, "ensure_loaded") /\ tasks[p].res = Ok
        /\ tasks[p].bodies = <<"load">> /\ tasks[p].key = tasks[q].key
        /\ inst[tasks[p].key].rt.state = "ready"
        /\ inst[tasks[p].key].rt.progress = 100
        /\ inst[tasks[p].key].rt.last_error \in LoadErrors

\* C31: ensure_loaded() on an instance that is loaded and has no unload in
\* flight returns at once: the exclusivity lock and its queue, is_loaded and
\* every runtime-state field (updated_at included) are as before, and load()
\* was not invoked.
C31_FastPathTouchesNothing ==
    [][\A p \in Tasks, k \in LifeKeys :
          ( /\ Idle(p) /\ tasks'[p].op = "ensure_loaded" /\ tasks'[p].key = k
            /\ inst[k].is_loaded /\ On(k, UnloadPcs) = {} )
          => /\ inst'[k] = inst[k]
             /\ tasks'[p].pc = "done" /\ tasks'[p].res = Ok
             /\ tasks'[p].bodies = <<>>
             /\ hist'[k].load_live = hist[k].load_live]_vars

\* ensure_loaded() has returned on a loaded instance while a download held
\* the lock, and the clock had moved on since the last update.
C31_Witness ==
    \E p \in Tasks, k \in LifeKeys :
        /\ Finished(p, "ensure_loaded") /\ tasks[p].res = Ok /\ tasks[p].key = k
        /\ tasks[p].bodies = <<>>
        /\ inst[k].is_loaded /\ On(k, DownloadPcs) # {}
        /\ inst[k].lock # <<>>
        /\ inst[k].rt.updated_at < cell.now

\* C32: the downloaded field of the snapshot a runtime_status() call returns
\* equals the presence of artifacts on the disk at the time of the read, in
\* both directions.
C32_DownloadedEqualsDisk ==
    [][\A p \in Tasks, k \in LifeKeys :
          ( /\ Idle(p) /\ tasks'[p].op = "runtime_status" /\ tasks'[p].key = k
            /\ tasks'[p].pc = "done" )
          => tasks'[p].seen.downloaded = is_downloaded(View, k)]_vars

\* C33: whenever an instance is loaded and no call is in flight on it, the
\* device list its most recent load() read equals its preferred_device_ids.
C33_LoadedOnPreferredDevices ==
    \A k \in LifeKeys :
        ( /\ inst[k].is_loaded
          /\ \A p \in Tasks : tasks[p].key = k => ~InFlight(tasks[p]) )
        => inst[k].used = inst[k].pref

\* C34: registry.status() returns one entry for every declared slot; the
\* entry of a slot that was never instantiated has loaded=false, state=idle,
\* progress=0 and the downloaded flag an instance of that slot would report
\* for the same contents of the cache (no directory, an empty directory, a
\* directory with files).
C34_SyntheticEntryMatchesInstance ==
    [][\A p \in Tasks :
          (Idle(p) /\ tasks'[p].op = "status" /\ tasks'[p].pc = "done")
          => /\ DOMAIN tasks'[p].listing = DOMAIN slots
             /\ \A k \in DOMAIN slots :
                   ~inst[k].exists
                   => LET e == tasks'[p].listing[k] IN
                      /\ ~e.loaded
                      /\ e.runtime.state = "idle"
                      /\ e.runtime.progress = 0
                      /\ e.runtime.downloaded =
                            runtime_status([View EXCEPT !.inst[k] =
                                               NewInstance(View, k, hf_token)], k).downloaded]_vars

\* C35: whenever nobody holds the exclusivity lock of an instance, its state
\* is "ready" exactly when is_loaded is true, and it is not "loading".
C35_StateAgreesWithFlag ==
    \A k \in LifeKeys :
        (inst[k].exists /\ inst[k].lock = <<>>)
        => /\ (inst[k].rt.state = "ready") <=> inst[k].is_loaded
           /\ inst[k].rt.state # "loading"

\* C36: last_error is written only when load() or download() has failed,
\* with the message of the failure: no other step of ensure_loaded,
\* ensure_downloaded or unload changes it, so a call that succeeds leaves it
\* as it was.
C36_LastErrorOnlyOnFailure ==
    [][\A k \in LifeKeys :
          inst'[k].rt.last_error # inst[k].rt.last_error
          => \E p \in Tasks :
                /\ tasks[p].key = k /\ tasks[p].pc \in {"load_err", "dl_err"}
                /\ tasks'[p].pc = "done" /\ tasks'[p].res.kind = "raised"
                /\ inst'[k].rt.last_error = tasks[p].exc]_vars

\* After a failed load the instance was loaded and then unloaded, both with
\* success, and still reports the message of the failure.
C36_Witness ==
    \E p, q \in Tasks, k \in LifeKeys :
        /\ Finished(p, "unload") /\ tasks[p].res = Ok /\ tasks[p].key = k
        /\ tasks[p].bodies = <<"unload">>
        /\ Finished(q, "ensure_loaded") /\ tasks[q].res = Ok /\ tasks[q].key = k
        /\ tasks[q].bodies = <<"load">>
        /\ inst[k].rt.state = "idle" /\ ~inst[k].is_loaded
        /\ inst[k].rt.status = <<"Model unloaded", "">>
        /\ inst[k].rt.last_error \in LoadErrors

\* C37: when _unload() raises inside unload(), is_loaded and every
\* runtime-state field are as before, the exclusivity lock passes to the
\* next in the queue (or is free), and the caller gets the exception.
C37_FailedUnloadChangesNothing ==
    [][\A p \in Tasks :
          ( /\ tasks[p].op = "unload" /\ tasks[p].pc = "ul_body"
            /\ tasks'[p].pc = "done" /\ tasks'[p].res # Ok )
          => LET k == tasks[p].key IN
             /\ inst'[k].is_loaded = inst[k].is_loaded
             /\ inst'[k].rt = inst[k].rt
             /\ Head(inst[k].lock) = p
             /\ inst'[k].lock = Tail(inst[k].lock)
             /\ tasks'[p].res \in {Raised(m) : m \in UnloadErrors}]_vars

\* unload() raised and left the instance loaded and ready; a later unload()
\* has got the lock and is running.
C37_Witness ==
    \E p, q \in Tasks, k \in LifeKeys :
        /\ Finished(p, "unload") /\ tasks[p].key = k
        /\ tasks[p].res \in {Raised(m) : m \in UnloadErrors}
        /\ inst[k].is_loaded /\ inst[k].rt.state = "ready"
        /\ tasks[q].op = "unload" /\ tasks[q].key = k /\ tasks[q].pc = "ul_body"
        /\ Holds(View, k, q)

\* C38: no registry.get, status or set_hf_token call waits for the registry
\* lock while its holder waits for a model's load, download or unload (for
\* the instance lock or for the body to end).
C38_RegistryCallsNotDelayedByLifecycle ==
    \A p, q \in Tasks :
        ( /\ rlock # <<>> /\ Head(rlock) = p
          /\ tasks[p].pc \in BodyPcs \cup WaitPcs )
        => ~( /\ tasks[q].pc = "rl_wait"
              /\ tasks[q].op \in {"get", "status", "set_hf_token"} )

\* C39: no deadlock: if every body ends, every call that is in flight
\* eventually returns or raises.
C39_EveryCallEnds ==
    \A p \in Tasks : InFlight(tasks[p]) ~> (tasks[p].pc = "done")

\* A registry.get() that had to wait for the registry lock, held by
\* shutdown() across an unload, has returned, and so has shutdown().
C39_Witness ==
    \E p, q \in Tasks :
        /\ Finished(p, "get") /\ tasks[p].queued /\ tasks[p].res.kind = "ok"
        /\ Finished(q, "shutdown") /\ tasks[q].bodies # <<>>
        /\ rlock = <<>>
        /\ \A k \in LifeKeys : inst[k].lock = <<>>

\* C40: for the chat model, CUDA_VISIBLE_DEVICES after an unload is what it
\* was before the matching load: an unload of a loaded instance and a failed
\* load put back the setting found when the load began, and an unload
\* of an instance that is not loaded leaves the setting as it is.
C40_UnloadRestoresVisibleDevices ==
    [][\A p \in Tasks :
         LET k == tasks'[p].key
             ends == tasks[p].pc # "done" /\ tasks'[p].pc = "done" IN
         /\ (ends /\ tasks'[p].op = "unload" /\ tasks'[p].res.kind = "ok")
                => cuda_visible' = IF inst[k].is_loaded THEN inst[k].visible_before
                                   ELSE cuda_visible
         /\ (ends /\ tasks'[p].op = "ensure_loaded" /\ tasks'[p].res.kind = "raised")
                => cuda_visible' = inst[k].visible_before]_vars

====
